---- MODULE Spec2Model ----
(***************************************************************************)
(* Model of libsync's segment-based two-pass Shazam recognition pipeline:  *)
(*   libsync/id/get_ids_from_recording.py   planner, aggregator,           *)
(*                                          orchestrator                   *)
(*   libsync/id/shazam/recognizer.py        cache-first recognizer with a  *)
(*                                          semaphore                      *)
(*   libsync/id/shazam/extractor.py         ffmpeg segment extraction      *)
(*   libsync/id/shazam/cache.py             SQLite segment cache           *)
(*   libsync/id/shazam/models.py            SegmentResult, TrackMatch      *)
(***************************************************************************)
EXTENDS Integers, Sequences, FiniteSets, TLC

(***************************************************************************)
(* Program constants (libsync/utils/constants.py).                         *)
(***************************************************************************)
SHAZAM_SEGMENT_LENGTH_MS == 15000
SHAZAM_MAX_CONCURRENT == 1
SHAZAM_PASS1_STEP_MS == 30000
SHAZAM_PASS2_STEP_MS == 7500
SHAZAM_MIN_GAP_MS == 45000
\* the literal tail tolerance of generate_pass1_segments / generate_pass2_segments
TAIL_TOLERANCE_MS == 5000

(***************************************************************************)
(* Bounds of the model.                                                    *)
(***************************************************************************)
\* runs of recognize_segments_two_pass in one behaviour
MaxRuns == 2
\* faults injected in one behaviour (probe, cache init, ffmpeg, service, exception)
MaxFaults == 1
\* kills of the process in one behaviour
MaxKills == 1
\* largest max_concurrent a direct caller of ShazamRecognizer configures
MaxConcurrent == 2

\* Python's None, for the nullable string fields
None == "None"

(***************************************************************************)
(* Sequence helpers.                                                       *)
(***************************************************************************)
\* list(range(lo, hi, step)) for step > 0
Range(lo, hi, step) ==
    IF hi <= lo THEN <<>>
    ELSE [i \in 1..((hi - lo + step - 1) \div step) |-> lo + (i - 1) * step]

SeqToSet(seq) == {seq[i] : i \in 1..Len(seq)}

Min(a, b) == IF a <= b THEN a ELSE b
Max(a, b) == IF a >= b THEN a ELSE b

(***************************************************************************)
(* models.py                                                               *)
(***************************************************************************)
\* SegmentCacheKey(audio_file_hash, start_ms, duration_ms)
SegmentCacheKey(audio_hash, start_ms, duration_ms) ==
    [audio_file_hash |-> audio_hash, start_ms |-> start_ms, duration_ms |-> duration_ms]

\* SegmentCacheKey.__str__: "{hash}_{start}_{duration}"; the hash is 16 hex
\* characters, so the string is one-to-one with the triple.
KeyStr(key) == <<key.audio_file_hash, key.start_ms, key.duration_ms>>

\* A recognition payload.  shape: "null" (Python None), "empty" ({}),
\* "notrack" (a dict without "track"), "track" (a dict with "track").
NullResponse == [shape |-> "null", key |-> None, title |-> None, subtitle |-> None]
EmptyResponse == [shape |-> "empty", key |-> None, title |-> None, subtitle |-> None]
NoTrackResponse == [shape |-> "notrack", key |-> None, title |-> None, subtitle |-> None]
TrackResponse(t) == [shape |-> "track", key |-> t, title |-> "title_" \o t, subtitle |-> "artist_" \o t]

\* SegmentResult(start_ms) with every other field defaulted to None
EmptySegmentResult(start_ms) ==
    [start_ms |-> start_ms, raw_response |-> NullResponse,
     track_id |-> None, title |-> None, artist |-> None]

\* SegmentResult.from_shazam_response
from_shazam_response(start_ms, response) ==
    IF response.shape \in {"null", "empty"} \/ response.shape = "notrack"
    THEN [start_ms |-> start_ms, raw_response |-> response,
          track_id |-> None, title |-> None, artist |-> None]
    ELSE [start_ms |-> start_ms, raw_response |-> response,
          track_id |-> response.key, title |-> response.title,
          artist |-> response.subtitle]

\* SegmentResult.has_match
has_match(result) == result.track_id # None

\* TrackMatch.add_match
add_match_append_only(m, timestamp_ms) ==
    [m EXCEPT !.match_timestamps = Append(@, timestamp_ms)]
add_match(m, timestamp_ms) ==
    [m EXCEPT !.match_timestamps = Append(@, timestamp_ms),
              !.first_seen_ms = Min(@, timestamp_ms),
              !.last_seen_ms = Max(@, timestamp_ms)]

\* TrackMatch.match_count
match_count(m) == Len(m.match_timestamps)

(***************************************************************************)
(* Planner and aggregator (get_ids_from_recording.py).                     *)
(***************************************************************************)
\* variant without the tail tolerance: a segment has to end inside the file
generate_pass1_segments_no_tolerance(total_duration_ms) ==
    SelectSeq(Range(0, total_duration_ms, SHAZAM_PASS1_STEP_MS),
              LAMBDA s : s + SHAZAM_SEGMENT_LENGTH_MS <= total_duration_ms)

generate_pass1_segments(total_duration_ms) ==
    SelectSeq(Range(0, total_duration_ms, SHAZAM_PASS1_STEP_MS),
              LAMBDA s : s + SHAZAM_SEGMENT_LENGTH_MS <= total_duration_ms + TAIL_TOLERANCE_MS)

\* tuple order of list.sort() on (start, end) pairs
RegionLeq(a, b) == a[1] < b[1] \/ (a[1] = b[1] /\ a[2] <= b[2])

RECURSIVE InsertSorted(_, _)
InsertSorted(sorted, r) ==
    IF sorted = <<>> THEN <<r>>
    ELSE IF RegionLeq(r, Head(sorted)) THEN <<r>> \o sorted
    ELSE <<Head(sorted)>> \o InsertSorted(Tail(sorted), r)

RECURSIVE SortRegions(_)
SortRegions(regions) ==
    IF regions = <<>> THEN <<>>
    ELSE InsertSorted(SortRegions(Tail(regions)), Head(regions))

\* the merge loop of find_gaps over the sorted regions
RECURSIVE MergeRegions(_, _)
MergeRegions(regions, merged) ==
    IF regions = <<>> THEN merged
    ELSE LET r == Head(regions)
             n == Len(merged)
         IN IF n > 0 /\ r[1] <= merged[n][2]
            THEN MergeRegions(Tail(regions),
                              [merged EXCEPT ![n] = <<merged[n][1], Max(merged[n][2], r[2])>>])
            ELSE MergeRegions(Tail(regions), Append(merged, r))

\* variant without padding: the region is the span of the matched segments
MatchRegion_unpadded(m, total_duration_ms) ==
    << m.first_seen_ms,
       Min(total_duration_ms, m.last_seen_ms + SHAZAM_SEGMENT_LENGTH_MS) >>

\* the padded region of one TrackMatch
MatchRegion(m, total_duration_ms) ==
    << Max(0, m.first_seen_ms - SHAZAM_SEGMENT_LENGTH_MS),
       Min(total_duration_ms, m.last_seen_ms + SHAZAM_SEGMENT_LENGTH_MS * 2) >>

\* matches: the dict of TrackMatch, as the sequence of its values in insertion order
find_gaps(matches, total_duration_ms, min_gap_ms) ==
    IF matches = <<>> THEN << <<0, total_duration_ms>> >>
    ELSE
      LET regions == [i \in 1..Len(matches) |-> MatchRegion(matches[i], total_duration_ms)]
          merged == MergeRegions(SortRegions(regions), <<>>)
          n == Len(merged)
          leading == IF merged[1][1] > min_gap_ms THEN << <<0, merged[1][1]>> >> ELSE <<>>
          between == SelectSeq([i \in 1..(n - 1) |-> <<merged[i][2], merged[i + 1][1]>>],
                               LAMBDA g : g[2] - g[1] >= min_gap_ms)
          trailing == IF total_duration_ms - merged[n][2] >= min_gap_ms
                      THEN << <<merged[n][2], total_duration_ms>> >> ELSE <<>>
      IN leading \o between \o trailing

\* variant that returns from inside the loop: only the first gap is planned
generate_pass2_segments_first_gap_only(gaps) ==
    IF gaps = <<>> THEN <<>>
    ELSE SelectSeq(Range(gaps[1][1], gaps[1][2], SHAZAM_PASS2_STEP_MS),
                   LAMBDA s : s + SHAZAM_SEGMENT_LENGTH_MS <= gaps[1][2] + TAIL_TOLERANCE_MS)

RECURSIVE generate_pass2_segments(_)
generate_pass2_segments(gaps) ==
    IF gaps = <<>> THEN <<>>
    ELSE LET g == Head(gaps)
         IN SelectSeq(Range(g[1], g[2], SHAZAM_PASS2_STEP_MS),
                      LAMBDA s : s + SHAZAM_SEGMENT_LENGTH_MS <= g[2] + TAIL_TOLERANCE_MS)
            \o generate_pass2_segments(Tail(gaps))

\* position of track_id in the dict, 0 when absent
RECURSIVE IndexOfTrack(_, _, _)
IndexOfTrack(matches, track_id, i) ==
    IF i > Len(matches) THEN 0
    ELSE IF matches[i].shazam_id = track_id THEN i
    ELSE IndexOfTrack(matches, track_id, i + 1)

\* one iteration of the loop of aggregate_matches
AggregateStep(matches, result) ==
    IF ~has_match(result) THEN matches
    ELSE LET i == IndexOfTrack(matches, result.track_id, 1)
         IN IF i = 0
            THEN Append(matches,
                        [shazam_id |-> result.track_id,
                         title |-> IF result.title = None THEN "" ELSE result.title,
                         artist |-> IF result.artist = None THEN "" ELSE result.artist,
                         first_seen_ms |-> result.start_ms,
                         last_seen_ms |-> result.start_ms,
                         match_timestamps |-> <<result.start_ms>>])
            ELSE [matches EXCEPT ![i] = add_match(@, result.start_ms)]

RECURSIVE AggregateFrom(_, _)
AggregateFrom(results, matches) ==
    IF results = <<>> THEN matches
    ELSE AggregateFrom(Tail(results), AggregateStep(matches, Head(results)))

aggregate_matches(results) == AggregateFrom(results, <<>>)

(***************************************************************************)
(* Segment cache (cache.py).  The store is the set of rows of the table    *)
(* segment_results; cache_key is the primary key.                          *)
(***************************************************************************)
\* json.dumps(raw_response) if raw_response else None, read back by json.loads:
\* a falsy payload (None or {}) is stored as NULL
ResultJson(raw_response) ==
    IF raw_response.shape \in {"null", "empty"} THEN NullResponse ELSE raw_response

RowResult(row) ==
    [start_ms |-> row.start_ms, raw_response |-> row.result_json,
     track_id |-> row.track_id, title |-> row.title, artist |-> row.artist]

\* SegmentCache.has for the key itself
CacheHasKey(c, key) == \E row \in c : row.cache_key = KeyStr(key)

\* SegmentCache.get, for a key that has a row
CacheGet(c, key) == RowResult(CHOOSE row \in c : row.cache_key = KeyStr(key))

\* variant on a table without the primary key: every set adds a row
CacheSet_no_primary_key(c, key, result) ==
    c \cup
    {[cache_key |-> KeyStr(key), audio_hash |-> key.audio_file_hash,
      start_ms |-> key.start_ms, duration_ms |-> key.duration_ms,
      result_json |-> ResultJson(result.raw_response),
      track_id |-> result.track_id, title |-> result.title, artist |-> result.artist]}

\* SegmentCache.set: INSERT OR REPLACE by primary key
CacheSet(c, key, result) ==
    {row \in c : row.cache_key # KeyStr(key)} \cup
    {[cache_key |-> KeyStr(key), audio_hash |-> key.audio_file_hash,
      start_ms |-> key.start_ms, duration_ms |-> key.duration_ms,
      result_json |-> ResultJson(result.raw_response),
      track_id |-> result.track_id, title |-> result.title, artist |-> result.artist]}

\* SELECT start_ms FROM segment_results WHERE audio_hash = ?
get_cached_segments_matches_only(c, audio_hash) ==
    {row.start_ms : row \in {r \in c : r.audio_hash = audio_hash /\ r.track_id # None}}
get_cached_segments(c, audio_hash) ==
    {row.start_ms : row \in {r \in c : r.audio_hash = audio_hash}}

\* rows in ORDER BY start_ms
RECURSIVE RowsByStart(_)
RowsByStart(rows) ==
    IF rows = {} THEN <<>>
    ELSE LET first == CHOOSE r \in rows : \A q \in rows : r.start_ms <= q.start_ms
         IN <<first>> \o RowsByStart(rows \ {first})

get_all_results(c, audio_hash) ==
    LET rows == RowsByStart({r \in c : r.audio_hash = audio_hash})
    IN [i \in 1..Len(rows) |-> RowResult(rows[i])]

\* the store after clear_for_audio (DELETE ... WHERE audio_hash = ?)
clear_for_audio_every_file(c, audio_hash) == {}
clear_for_audio(c, audio_hash) == {row \in c : row.audio_hash # audio_hash}

\* the value clear_for_audio returns: cursor.rowcount of the DELETE
clear_for_audio_deleted(c, audio_hash) ==
    Cardinality(c) - Cardinality(clear_for_audio(c, audio_hash))

\* get_matches_only: WHERE audio_hash = ? AND track_id IS NOT NULL ORDER BY start_ms
get_matches_only(c, audio_hash) ==
    LET rows == RowsByStart({r \in c : r.audio_hash = audio_hash /\ r.track_id # None})
    IN [i \in 1..Len(rows) |-> RowResult(rows[i])]

\* get_cache_stats: COUNT(*), COUNT(*) with a track_id, COUNT(DISTINCT track_id)
get_cache_stats_count_hits(c, audio_hash) ==
    LET rows == {r \in c : r.audio_hash = audio_hash}
        hits == {r \in rows : r.track_id # None}
    IN [total_segments |-> Cardinality(rows),
        segments_with_match |-> Cardinality(hits),
        unique_tracks |-> Cardinality(hits)]
get_cache_stats(c, audio_hash) ==
    LET rows == {r \in c : r.audio_hash = audio_hash}
        hits == {r \in rows : r.track_id # None}
    IN [total_segments |-> Cardinality(rows),
        segments_with_match |-> Cardinality(hits),
        unique_tracks |-> Cardinality({r.track_id : r \in hits})]

(***************************************************************************)
(* The environment: audio files and the recognition service.               *)
(***************************************************************************)
\* An audio file: its content hash, its probed duration, and the tracks the
\* service hears in it (track t is recognised in a segment starting in [from, to)).
Files ==
    { [hash |-> "h_silent", duration_ms |-> 45000, spans |-> {}],
      [hash |-> "h_late", duration_ms |-> 45000,
       spans |-> {[track |-> "B", from |-> 15000, to |-> 22501]}],
      [hash |-> "h_set", duration_ms |-> 75000,
       spans |-> {[track |-> "A", from |-> 0, to |-> 1],
                  [track |-> "B", from |-> 45000, to |-> 52501],
                  [track |-> "C", from |-> 60000, to |-> 60001]}] }

\* what shazam.recognize answers for the segment of file f starting at start_ms
ServiceResponse(f, start_ms) ==
    IF \E sp \in f.spans : sp.from <= start_ms /\ start_ms < sp.to
    THEN TrackResponse((CHOOSE sp \in f.spans : sp.from <= start_ms /\ start_ms < sp.to).track)
    ELSE NoTrackResponse

\* SegmentCacheKey.compute_file_hash
compute_file_hash(f) == f.hash

\* get_audio_duration_ms, when ffmpeg.probe succeeds
get_audio_duration_ms(f) == f.duration_ms

(***************************************************************************)
(* State.                                                                  *)
(***************************************************************************)
VARIABLES
    recording,          \* the audio file the behaviour is about
    cache,              \* rows of the cache database (persists across runs)
    report,             \* the results file on disk (persists across runs)
    pc,                 \* position of recognize_segments_two_pass
    run,                \* number of runs started
    force_redo,         \* the run's force_redo argument
    total_duration_ms,  \* local of the orchestrator
    cached_segments,    \* local of the orchestrator
    temp_dir,           \* TRUE while the run's mkdtemp directory exists
    pass_all,           \* pass1_all / pass2_all of the current pass
    pass_uncached,      \* pass1_uncached / pass2_uncached of the current pass
    matches,            \* matches aggregated after pass 1
    final_matches,      \* the value the run returns
    exit_kind,          \* how the try block is left: "none", "return", "raise"
    extract_pending,    \* specs of extract_batch whose extraction is not finished
    segment_paths,      \* starts of the (segment_path, start_ms) pairs handed to recognize_batch
    segment_files,      \* starts whose segment_{start}.mp3 exists in temp_dir
    executor,           \* SegmentExtractor._executor: "none" or "running"
    rpc,                \* recognize_batch: "idle", "called", "running", "returned"
    max_concurrent,     \* ShazamRecognizer.max_concurrent
    sem,                \* value of ShazamRecognizer._semaphore
    task,               \* per segment of the batch: "waiting", "in_flight", "done"
    result,             \* per finished task: the SegmentResult it returned
    cleanup_segments,   \* argument of recognize_batch
    faults,             \* history: faults injected so far
    kills,              \* history: kills so far
    extracted,          \* history: starts handed to ffmpeg in the current pass
    extract_calls,      \* history: ffmpeg invocations of the current run
    service_calls,      \* history: per start, shazam.recognize calls of the current run
    segment_failures,   \* history: kinds of per-segment failure seen in the current run
    failed_calls,       \* history: starts whose latest shazam.recognize call raised
    prev_clean,         \* history: the previous run returned and had no segment failure
    prev_final,         \* history: what the previous run returned
    completed_ok,       \* history: starts whose service call returned a response since the last clear
    ok_at_start,        \* history: completed_ok when the current run started
    written_this_run,   \* history: starts whose row the current run wrote
    abort_cause,        \* history: why the current run raised
    cache_at_start,     \* history: the cache when the current run started
    cache_opened,       \* history: the current run constructed its SegmentCache
    report_writes,      \* history: write_results_file calls of the current run
    phase_log,          \* history: the positions the current run has been through
    results,            \* aggregate_matches: the list of SegmentResults it is given
    gap_list,           \* find_gaps: the list of gaps it returned
    shown,              \* get_track_ids_from_audio_file: the tracks it lists
    last_set,           \* history: per cache key, the result of the latest set not yet cleared
    last_op,            \* history: the latest operation on the cache
    batch_call,         \* a batch function called on its own: its name, its segments, the
                        \* semaphore's limit, the order in which its tasks were created
    job,                \* per segment of that batch: "pending", "waiting", "in_call", "ok", "failed"
    done_order,         \* positions of the finished segments, in the order they finished
    collector,          \* the as_completed loop of recognize_batch: results taken, pausing
    returned,           \* what the batch function has returned
    calls_in_pause      \* history: positions whose service call started during a pause

fileVars == <<recording>>
storeVars == <<cache, report>>
orchVars == <<pc, run, force_redo, total_duration_ms, cached_segments, temp_dir,
              pass_all, pass_uncached, matches, final_matches, exit_kind>>
extractVars == <<extract_pending, segment_paths, segment_files, executor>>
recVars == <<rpc, max_concurrent, sem, task, result, cleanup_segments>>
histVars == <<faults, kills, extracted, extract_calls, service_calls, segment_failures,
              failed_calls,
              prev_clean, prev_final, completed_ok, ok_at_start, written_this_run,
              abort_cause, cache_at_start, cache_opened, report_writes, phase_log>>
batchVars == <<batch_call, job, done_order, collector, returned, calls_in_pause>>
unitVars == <<results, gap_list, shown, last_set, last_op, batchVars>>
vars == <<fileVars, storeVars, orchVars, extractVars, recVars, histVars, unitVars>>

EmptyFn == [s \in {} |-> None]
\* no operation on the cache yet
NoOp == [op |-> "none"]
\* no batch function is called on its own
NoCall == [fn |-> "none", segments |-> <<>>, limit |-> 0, spawn |-> <<>>]
Running == [state |-> "running", value |-> <<>>]
BatchAtRest ==
    /\ batch_call = NoCall
    /\ job = <<>>
    /\ done_order = <<>>
    /\ collector = [taken |-> 0, pausing |-> FALSE, pauses |-> 0]
    /\ returned = Running
    /\ calls_in_pause = {}
NoStats == [total_segments |-> 0, segments_with_match |-> 0, unique_tracks |-> 0]
NoReport == [phase |-> "none", matches |-> <<>>, stats |-> NoStats]

audio_hash == compute_file_hash(recording)
KeyOf(start_ms) == SegmentCacheKey(audio_hash, start_ms, SHAZAM_SEGMENT_LENGTH_MS)

InFlight == {s \in DOMAIN task : task[s] = "in_flight"}
Waiting == {s \in DOMAIN task : task[s] = "waiting"}

\* f with the count of every start in S raised by one
CountCalls(f, S) ==
    [s \in DOMAIN f \cup S |->
        (IF s \in DOMAIN f THEN f[s] ELSE 0) + (IF s \in S THEN 1 ELSE 0)]

(***************************************************************************)
(* Recognizer (recognizer.py).                                             *)
(***************************************************************************)
\* recognize_segment, lines 76-80: the cache is consulted first
CacheHit_never(c, key) == FALSE
CacheHit(c, key) == CacheHasKey(c, key)

\* recognize_segment, lines 87-91: the result built from a response is stored
PersistResult_matches_only(c, key, res) ==
    IF has_match(res) THEN CacheSet(c, key, res) ELSE c
PersistResult(c, key, res) == CacheSet(c, key, res)

\* async with self._semaphore: entry takes a slot, exit gives it back
SemAcquire_no_count(v) == v
SemAcquire(v) == v - 1
SemRelease(v) == v + 1

\* recognize_batch: the tasks are created and each runs up to its first
\* suspension: a cache hit returns at once, a miss takes a free slot of the
\* semaphore and calls the service, or waits for a slot.
RecognizeBatchStart ==
    /\ rpc = "called"
    /\ LET hits == {s \in segment_paths : CacheHit(cache, KeyOf(s))}
           misses == segment_paths \ hits
       IN \E first \in SUBSET misses :
            /\ Cardinality(first) = Min(sem, Cardinality(misses))
            /\ task' = [s \in segment_paths |->
                          IF s \in hits THEN "done"
                          ELSE IF s \in first THEN "in_flight" ELSE "waiting"]
            /\ result' = [s \in hits |-> CacheGet(cache, KeyOf(s))]
            /\ sem' = sem - Cardinality(first)
            /\ service_calls' = CountCalls(service_calls, first)
    /\ rpc' = "running"
    /\ UNCHANGED <<max_concurrent, cleanup_segments>>
    /\ UNCHANGED <<fileVars, storeVars, orchVars, extractVars>>
    /\ UNCHANGED <<faults, kills, extracted, extract_calls, segment_failures, prev_clean,
                   prev_final, completed_ok, ok_at_start, written_this_run, abort_cause,
                   cache_at_start, cache_opened, report_writes, phase_log>>
    /\ UNCHANGED <<failed_calls, unitVars>>

\* a waiting task is given a released slot and calls the service
SemaphoreWake(s) ==
    /\ rpc = "running"
    /\ task[s] = "waiting"
    /\ sem > 0
    /\ sem' = SemAcquire(sem)
    /\ task' = [task EXCEPT ![s] = "in_flight"]
    /\ service_calls' = CountCalls(service_calls, {s})
    /\ UNCHANGED <<rpc, max_concurrent, result, cleanup_segments>>
    /\ UNCHANGED <<fileVars, storeVars, orchVars, extractVars>>
    /\ UNCHANGED <<faults, kills, extracted, extract_calls, segment_failures, prev_clean,
                   prev_final, completed_ok, ok_at_start, written_this_run, abort_cause,
                   cache_at_start, cache_opened, report_writes, phase_log>>
    /\ UNCHANGED <<failed_calls, unitVars>>

\* shazam.recognize returns a response: lines 86-98
RecognizeResponse(s) ==
    /\ rpc = "running"
    /\ task[s] = "in_flight"
    /\ LET res == from_shazam_response(s, ServiceResponse(recording, s))
       IN /\ cache' = PersistResult(cache, KeyOf(s), res)
          /\ result' = [t \in DOMAIN result \cup {s} |-> IF t = s THEN res ELSE result[t]]
    /\ task' = [task EXCEPT ![s] = "done"]
    /\ sem' = SemRelease(sem)
    /\ completed_ok' = completed_ok \cup {s}
    /\ written_this_run' = written_this_run \cup {s}
    /\ UNCHANGED <<rpc, max_concurrent, cleanup_segments, report>>
    /\ UNCHANGED <<fileVars, orchVars, extractVars>>
    /\ UNCHANGED <<faults, kills, extracted, extract_calls, service_calls, segment_failures,
                   prev_clean, prev_final, ok_at_start, abort_cause, cache_at_start,
                   cache_opened, report_writes, phase_log>>
    /\ failed_calls' = failed_calls \ {s}
    /\ UNCHANGED unitVars

\* shazam.recognize raises (network error, retries exhausted, bad payload):
\* lines 100-103
RecognizeError(s) ==
    /\ rpc = "running"
    /\ task[s] = "in_flight"
    /\ faults < MaxFaults
    /\ faults' = faults + 1
    /\ result' = [t \in DOMAIN result \cup {s} |->
                    IF t = s THEN EmptySegmentResult(s) ELSE result[t]]
    /\ task' = [task EXCEPT ![s] = "done"]
    /\ sem' = SemRelease(sem)
    /\ segment_failures' = segment_failures \cup {"recognition"}
    /\ UNCHANGED <<rpc, max_concurrent, cleanup_segments>>
    /\ UNCHANGED <<fileVars, storeVars, orchVars, extractVars>>
    /\ UNCHANGED <<kills, extracted, extract_calls, service_calls, prev_clean, prev_final,
                   completed_ok, ok_at_start, written_this_run, abort_cause, cache_at_start,
                   cache_opened, report_writes, phase_log>>
    /\ failed_calls' = failed_calls \cup {s}
    /\ UNCHANGED unitVars

\* recognize_batch, lines 145-150: os.remove of every path of the batch,
\* if the caller asked for it
FilesAfterCleanup_always(files, paths, cleanup) == files \ paths
FilesAfterCleanup(files, paths, cleanup) ==
    IF cleanup THEN files \ paths ELSE files

\* every task has finished: the segment files are removed, the results returned
RecognizeBatchReturn ==
    /\ rpc = "running"
    /\ \A s \in DOMAIN task : task[s] = "done"
    /\ segment_files' = FilesAfterCleanup(segment_files, segment_paths, cleanup_segments)
    /\ rpc' = "returned"
    /\ UNCHANGED <<extract_pending, segment_paths, executor>>
    /\ UNCHANGED <<max_concurrent, sem, task, result, cleanup_segments>>
    /\ UNCHANGED <<fileVars, storeVars, orchVars, histVars>>
    /\ UNCHANGED unitVars

(***************************************************************************)
(* Extractor (extractor.py), as driven by extract_and_recognize_parallel.  *)
(***************************************************************************)
ExtractPcs == {"pass1_extract", "pass2_extract"}
RecognizePcs == {"pass1_recognize", "pass2_recognize"}
RecognizePc_pass1(p) == "pass1_recognize"
RecognizePc(p) == IF p = "pass1_extract" THEN "pass1_recognize" ELSE "pass2_recognize"
AggregatePc(p) == IF p = "pass1_recognize" THEN "pass1_aggregate" ELSE "final_aggregate"

\* positions inside the try block of recognize_segments_two_pass
TryPcs == {"pass1_plan", "pass1_extract", "pass1_recognize", "pass1_aggregate",
           "pass2_plan", "pass2_extract", "pass2_recognize", "final_aggregate"}
\* positions before the try block
SetupPcs == {"probe_duration", "init_cache", "force_clear", "read_cached", "mkdtemp"}
\* positions at which no run is executing
RestPcs == {"idle", "done", "aborted", "raised", "killed"}

\* the orchestrator moves to position p
Go(p) == pc' = p /\ phase_log' = Append(phase_log, p)

\* extract_with_tracking: except subprocess.CalledProcessError -> return None
CalledProcessErrorCaught_not == FALSE
CalledProcessErrorCaught == TRUE

\* ffmpeg exits 0 for the spec starting at s: the pair (segment_path, s) is kept
ExtractSegment(s) ==
    /\ pc \in ExtractPcs
    /\ s \in extract_pending
    /\ extract_pending' = extract_pending \ {s}
    /\ segment_paths' = segment_paths \cup {s}
    /\ segment_files' = segment_files \cup {s}
    /\ executor' = "running"
    /\ extracted' = extracted \cup {s}
    /\ extract_calls' = extract_calls + 1
    /\ UNCHANGED <<fileVars, storeVars, orchVars, recVars>>
    /\ UNCHANGED <<faults, kills, service_calls, segment_failures, prev_clean, prev_final,
                   completed_ok, ok_at_start, written_this_run, abort_cause, cache_at_start,
                   cache_opened, report_writes, phase_log>>
    /\ UNCHANGED <<failed_calls, unitVars>>

\* ffmpeg exits non-zero for the spec starting at s: the spec is dropped
ExtractSegmentFails(s) ==
    /\ pc \in ExtractPcs
    /\ s \in extract_pending
    /\ faults < MaxFaults
    /\ faults' = faults + 1
    /\ extract_pending' = extract_pending \ {s}
    /\ extracted' = extracted \cup {s}
    /\ extract_calls' = extract_calls + 1
    /\ segment_failures' = segment_failures \cup {"extraction"}
    /\ IF CalledProcessErrorCaught
       THEN UNCHANGED <<pc, phase_log, exit_kind, abort_cause>>
       ELSE Go("finally") /\ exit_kind' = "raise" /\ abort_cause' = "extraction"
    /\ UNCHANGED <<segment_paths, segment_files>>
    /\ executor' = "running"
    /\ UNCHANGED <<run, force_redo, total_duration_ms, cached_segments, temp_dir,
                   pass_all, pass_uncached, matches, final_matches>>
    /\ UNCHANGED <<fileVars, storeVars, recVars>>
    /\ UNCHANGED <<kills, service_calls, prev_clean, prev_final, completed_ok, ok_at_start,
                   written_this_run, cache_at_start, cache_opened, report_writes>>
    /\ UNCHANGED <<failed_calls, unitVars>>

\* extract_batch returns when its as_completed loop has awaited every task
ExtractBatchDone_after_first(pending, tried) == tried # {}
ExtractBatchDone(pending, tried) == pending = {}

\* extract_batch has returned; extract_and_recognize_parallel constructs the
\* recognizer and calls recognize_batch with the extracted pairs
ExtractBatchReturn ==
    /\ pc \in ExtractPcs
    /\ ExtractBatchDone(extract_pending, extracted)
    /\ Go(RecognizePc(pc))
    /\ max_concurrent' = SHAZAM_MAX_CONCURRENT
    /\ sem' = SHAZAM_MAX_CONCURRENT
    /\ cleanup_segments' = TRUE
    /\ task' = EmptyFn
    /\ result' = EmptyFn
    /\ rpc' = "called"
    /\ UNCHANGED <<run, force_redo, total_duration_ms, cached_segments, temp_dir,
                   pass_all, pass_uncached, matches, final_matches, exit_kind>>
    /\ UNCHANGED <<fileVars, storeVars, extractVars>>
    /\ UNCHANGED <<faults, kills, extracted, extract_calls, service_calls, segment_failures,
                   prev_clean, prev_final, completed_ok, ok_at_start, written_this_run,
                   abort_cause, cache_at_start, cache_opened, report_writes>>
    /\ UNCHANGED <<failed_calls, unitVars>>

\* recognize_batch has returned; extractor.shutdown(), return
ParallelReturn ==
    /\ pc \in RecognizePcs
    /\ rpc = "returned"
    /\ Go(AggregatePc(pc))
    /\ rpc' = "idle"
    /\ task' = EmptyFn
    /\ result' = EmptyFn
    /\ executor' = "none"
    /\ UNCHANGED <<extract_pending, segment_paths, segment_files>>
    /\ UNCHANGED <<max_concurrent, sem, cleanup_segments>>
    /\ UNCHANGED <<run, force_redo, total_duration_ms, cached_segments, temp_dir,
                   pass_all, pass_uncached, matches, final_matches, exit_kind>>
    /\ UNCHANGED <<fileVars, storeVars>>
    /\ UNCHANGED <<faults, kills, extracted, extract_calls, service_calls, segment_failures,
                   prev_clean, prev_final, completed_ok, ok_at_start, written_this_run,
                   abort_cause, cache_at_start, cache_opened, report_writes>>
    /\ UNCHANGED <<failed_calls, unitVars>>

(***************************************************************************)
(* Orchestrator: recognize_segments_two_pass.                              *)
(***************************************************************************)
\* the order of the statements before the try block (lines 287-315)
StepAfter_cache_first(p) ==
    CASE p = "start" -> "init_cache"
      [] p = "init_cache" -> "probe_duration"
      [] p = "probe_duration" -> "force_clear"
      [] p = "force_clear" -> "read_cached"
      [] p = "read_cached" -> "mkdtemp"
      [] p = "mkdtemp" -> "pass1_plan"
StepAfter(p) ==
    CASE p = "start" -> "probe_duration"
      [] p = "probe_duration" -> "init_cache"
      [] p = "init_cache" -> "force_clear"
      [] p = "force_clear" -> "read_cached"
      [] p = "read_cached" -> "mkdtemp"
      [] p = "mkdtemp" -> "pass1_plan"

\* [s for s in all if s not in cached_segments] (lines 320 and 363)
Uncached_all(all, cached) == all
Uncached(all, cached) == SelectSeq(all, LAMBDA s : s \notin cached)

\* line 362: cached_segments is read again before pass 2
RefreshCachedSegments_stale(c, h, old) == old
RefreshCachedSegments(c, h, old) == get_cached_segments(c, h)

\* lines 306-309: the rows that survive the force_redo clear
ClearForRedo_keep_matches(c, h) == {row \in c : row.audio_hash # h \/ row.track_id # None}
ClearForRedo(c, h) == clear_for_audio(c, h)

\* the finally clause: shutil.rmtree(temp_dir) on every way out of the try block
TempDirAfterExit_return_only(kind, exists) == IF kind = "return" THEN FALSE ELSE exists
TempDirAfterExit(kind, exists) == FALSE

\* sorted(matches.values(), key=first_seen_ms), a stable sort
RECURSIVE InsertByFirstSeen(_, _)
InsertByFirstSeen(sorted, m) ==
    IF sorted = <<>> THEN <<m>>
    ELSE IF m.first_seen_ms < Head(sorted).first_seen_ms THEN <<m>> \o sorted
    ELSE <<Head(sorted)>> \o InsertByFirstSeen(Tail(sorted), m)

RECURSIVE SortByFirstSeen(_, _)
SortByFirstSeen(ms, sorted) ==
    IF ms = <<>> THEN sorted
    ELSE SortByFirstSeen(Tail(ms), InsertByFirstSeen(sorted, Head(ms)))

\* the content write_results_file puts on disk
write_results_file(ms, stats, phase) ==
    [phase |-> phase, matches |-> SortByFirstSeen(ms, <<>>), stats |-> stats]

StartRun ==
    /\ pc \in RestPcs
    /\ run < MaxRuns
    /\ run' = run + 1
    /\ \E f \in BOOLEAN : force_redo' = f
    /\ pc' = StepAfter("start")
    /\ phase_log' = <<StepAfter("start")>>
    /\ total_duration_ms' = 0
    /\ cached_segments' = {}
    /\ temp_dir' = FALSE
    /\ pass_all' = <<>>
    /\ pass_uncached' = <<>>
    /\ matches' = <<>>
    /\ final_matches' = <<>>
    /\ exit_kind' = "none"
    /\ extract_pending' = {}
    /\ segment_paths' = {}
    /\ segment_files' = {}
    /\ executor' = "none"
    /\ rpc' = "idle"
    /\ task' = EmptyFn
    /\ result' = EmptyFn
    /\ extracted' = {}
    /\ extract_calls' = 0
    /\ service_calls' = EmptyFn
    /\ segment_failures' = {}
    /\ prev_clean' = (pc = "done" /\ segment_failures = {})
    /\ prev_final' = final_matches
    /\ ok_at_start' = completed_ok
    /\ written_this_run' = {}
    /\ abort_cause' = "none"
    /\ cache_at_start' = cache
    /\ cache_opened' = FALSE
    /\ report_writes' = 0
    /\ UNCHANGED <<fileVars, storeVars, max_concurrent, sem, cleanup_segments>>
    /\ UNCHANGED <<faults, kills, completed_ok>>
    /\ UNCHANGED <<failed_calls, unitVars>>

\* total_duration_ms = get_audio_duration_ms(audio_path)
ProbeDuration ==
    /\ pc = "probe_duration"
    /\ total_duration_ms' = get_audio_duration_ms(recording)
    /\ Go(StepAfter(pc))
    /\ UNCHANGED <<run, force_redo, cached_segments, temp_dir, pass_all, pass_uncached,
                   matches, final_matches, exit_kind>>
    /\ UNCHANGED <<fileVars, storeVars, extractVars, recVars>>
    /\ UNCHANGED <<faults, kills, extracted, extract_calls, service_calls, segment_failures,
                   prev_clean, prev_final, completed_ok, ok_at_start, written_this_run,
                   abort_cause, cache_at_start, cache_opened, report_writes>>
    /\ UNCHANGED <<failed_calls, unitVars>>

\* ffmpeg.probe raises, or the file has no audio stream: the exception leaves
\* recognize_segments_two_pass
ProbeFails ==
    /\ pc = "probe_duration"
    /\ faults < MaxFaults
    /\ faults' = faults + 1
    /\ Go("aborted")
    /\ abort_cause' = "probe"
    /\ UNCHANGED <<run, force_redo, total_duration_ms, cached_segments, temp_dir, pass_all,
                   pass_uncached, matches, final_matches, exit_kind>>
    /\ UNCHANGED <<fileVars, storeVars, extractVars, recVars>>
    /\ UNCHANGED <<kills, extracted, extract_calls, service_calls, segment_failures,
                   prev_clean, prev_final, completed_ok, ok_at_start, written_this_run,
                   cache_at_start, cache_opened, report_writes>>
    /\ UNCHANGED <<failed_calls, unitVars>>

\* _init_db: CREATE TABLE IF NOT EXISTS keeps the rows of an existing table
RowsAfterInitDb_recreate(c) == {}
RowsAfterInitDb(c) == c

\* cache = SegmentCache(cache_path)
InitCache ==
    /\ pc = "init_cache"
    /\ cache_opened' = TRUE
    /\ cache' = RowsAfterInitDb(cache)
    /\ Go(StepAfter(pc))
    /\ UNCHANGED <<run, force_redo, total_duration_ms, cached_segments, temp_dir, pass_all,
                   pass_uncached, matches, final_matches, exit_kind>>
    /\ UNCHANGED <<fileVars, report, extractVars, recVars>>
    /\ UNCHANGED <<faults, kills, extracted, extract_calls, service_calls, segment_failures,
                   prev_clean, prev_final, completed_ok, ok_at_start, written_this_run,
                   abort_cause, cache_at_start, report_writes>>
    /\ UNCHANGED <<failed_calls, unitVars>>

\* sqlite3 raises in _init_db: the exception leaves recognize_segments_two_pass
InitCacheFails ==
    /\ pc = "init_cache"
    /\ faults < MaxFaults
    /\ faults' = faults + 1
    /\ Go("aborted")
    /\ abort_cause' = "cache_init"
    /\ UNCHANGED <<run, force_redo, total_duration_ms, cached_segments, temp_dir, pass_all,
                   pass_uncached, matches, final_matches, exit_kind>>
    /\ UNCHANGED <<fileVars, storeVars, extractVars, recVars>>
    /\ UNCHANGED <<kills, extracted, extract_calls, service_calls, segment_failures,
                   prev_clean, prev_final, completed_ok, ok_at_start, written_this_run,
                   cache_at_start, cache_opened, report_writes>>
    /\ UNCHANGED <<failed_calls, unitVars>>

\* if force_redo: cache.clear_for_audio(audio_hash)
ForceRedoClear ==
    /\ pc = "force_clear"
    /\ cache' = IF force_redo THEN ClearForRedo(cache, audio_hash) ELSE cache
    /\ completed_ok' = IF force_redo THEN {} ELSE completed_ok
    /\ Go(StepAfter(pc))
    /\ UNCHANGED <<run, force_redo, total_duration_ms, cached_segments, temp_dir, pass_all,
                   pass_uncached, matches, final_matches, exit_kind>>
    /\ UNCHANGED <<fileVars, report, extractVars, recVars>>
    /\ UNCHANGED <<faults, kills, extracted, extract_calls, service_calls, segment_failures,
                   prev_clean, prev_final, ok_at_start, written_this_run, abort_cause,
                   cache_at_start, cache_opened, report_writes>>
    /\ UNCHANGED <<failed_calls, unitVars>>

\* cached_segments = cache.get_cached_segments(audio_hash)
ReadCachedSegments ==
    /\ pc = "read_cached"
    /\ cached_segments' = get_cached_segments(cache, audio_hash)
    /\ Go(StepAfter(pc))
    /\ UNCHANGED <<run, force_redo, total_duration_ms, temp_dir, pass_all, pass_uncached,
                   matches, final_matches, exit_kind>>
    /\ UNCHANGED <<fileVars, storeVars, extractVars, recVars>>
    /\ UNCHANGED <<faults, kills, extracted, extract_calls, service_calls, segment_failures,
                   prev_clean, prev_final, completed_ok, ok_at_start, written_this_run,
                   abort_cause, cache_at_start, cache_opened, report_writes>>
    /\ UNCHANGED <<failed_calls, unitVars>>

\* temp_dir = tempfile.mkdtemp(...)
MakeTempDir ==
    /\ pc = "mkdtemp"
    /\ temp_dir' = TRUE
    /\ Go(StepAfter(pc))
    /\ UNCHANGED <<run, force_redo, total_duration_ms, cached_segments, pass_all,
                   pass_uncached, matches, final_matches, exit_kind>>
    /\ UNCHANGED <<fileVars, storeVars, extractVars, recVars>>
    /\ UNCHANGED <<faults, kills, extracted, extract_calls, service_calls, segment_failures,
                   prev_clean, prev_final, completed_ok, ok_at_start, written_this_run,
                   abort_cause, cache_at_start, cache_opened, report_writes>>
    /\ UNCHANGED <<failed_calls, unitVars>>

\* PASS1_PLAN: pass1_all, pass1_uncached
Pass1Plan ==
    /\ pc = "pass1_plan"
    /\ LET all == generate_pass1_segments(total_duration_ms)
           todo == Uncached(all, cached_segments)
       IN /\ pass_all' = all
          /\ pass_uncached' = todo
          /\ extract_pending' = SeqToSet(todo)
          /\ Go(IF todo = <<>> THEN "pass1_aggregate" ELSE "pass1_extract")
    /\ extracted' = {}
    /\ segment_paths' = {}
    /\ UNCHANGED <<run, force_redo, total_duration_ms, cached_segments, temp_dir, matches,
                   final_matches, exit_kind, segment_files, executor>>
    /\ UNCHANGED <<fileVars, storeVars, recVars>>
    /\ UNCHANGED <<faults, kills, extract_calls, service_calls, segment_failures, prev_clean,
                   prev_final, completed_ok, ok_at_start, written_this_run, abort_cause,
                   cache_at_start, cache_opened, report_writes>>
    /\ UNCHANGED <<failed_calls, unitVars>>

\* lines 347 and 390: the results a pass aggregates are read from the cache
ResultsToAggregate_this_run_only(c, h, fresh) ==
    SelectSeq(get_all_results(c, h), LAMBDA res : res.start_ms \in fresh)
ResultsToAggregate(c, h, fresh) == get_all_results(c, h)

\* lines 353-355: the file at results_path after the pass-1 write
ReportAfterPass1_final_only(old, new) == old
ReportAfterPass1(old, new) == new

\* PASS1_AGGREGATE: aggregate every cached result, write the intermediate report
Pass1Aggregate ==
    /\ pc = "pass1_aggregate"
    /\ LET ms == aggregate_matches(ResultsToAggregate(cache, audio_hash, written_this_run))
       IN /\ matches' = ms
          /\ report' = ReportAfterPass1(report,
                                        write_results_file(ms, get_cache_stats(cache, audio_hash),
                                                           "Pass 1 complete"))
    /\ report_writes' = report_writes + 1
    /\ Go("pass2_plan")
    /\ UNCHANGED <<run, force_redo, total_duration_ms, cached_segments, temp_dir, pass_all,
                   pass_uncached, final_matches, exit_kind>>
    /\ UNCHANGED <<fileVars, cache, extractVars, recVars>>
    /\ UNCHANGED <<faults, kills, extracted, extract_calls, service_calls, segment_failures,
                   prev_clean, prev_final, completed_ok, ok_at_start, written_this_run,
                   abort_cause, cache_at_start, cache_opened>>
    /\ UNCHANGED <<failed_calls, unitVars>>

\* PASS2_PLAN: gaps of the pass-1 matches, pass2_all, pass2_uncached
Pass2Plan ==
    /\ pc = "pass2_plan"
    /\ LET gaps == find_gaps(matches, total_duration_ms, SHAZAM_MIN_GAP_MS)
           all == generate_pass2_segments(gaps)
           cached == RefreshCachedSegments(cache, audio_hash, cached_segments)
           todo == Uncached(all, cached)
       IN /\ pass_all' = all
          /\ cached_segments' = cached
          /\ pass_uncached' = todo
          /\ extract_pending' = SeqToSet(todo)
          /\ Go(IF todo = <<>> THEN "final_aggregate" ELSE "pass2_extract")
    /\ extracted' = {}
    /\ segment_paths' = {}
    /\ UNCHANGED <<run, force_redo, total_duration_ms, temp_dir, matches, final_matches,
                   exit_kind, segment_files, executor>>
    /\ UNCHANGED <<fileVars, storeVars, recVars>>
    /\ UNCHANGED <<faults, kills, extract_calls, service_calls, segment_failures, prev_clean,
                   prev_final, completed_ok, ok_at_start, written_this_run, abort_cause,
                   cache_at_start, cache_opened, report_writes>>
    /\ UNCHANGED <<failed_calls, unitVars>>

\* FINAL_AGGREGATE and REPORT: aggregate every cached result, write the final
\* report, return final_matches
FinalAggregate ==
    /\ pc = "final_aggregate"
    /\ LET ms == aggregate_matches(ResultsToAggregate(cache, audio_hash, written_this_run))
       IN /\ final_matches' = ms
          /\ report' = write_results_file(ms, get_cache_stats(cache, audio_hash), "Complete")
    /\ report_writes' = report_writes + 1
    /\ exit_kind' = "return"
    /\ Go("finally")
    /\ UNCHANGED <<run, force_redo, total_duration_ms, cached_segments, temp_dir, pass_all,
                   pass_uncached, matches>>
    /\ UNCHANGED <<fileVars, cache, extractVars, recVars>>
    /\ UNCHANGED <<faults, kills, extracted, extract_calls, service_calls, segment_failures,
                   prev_clean, prev_final, completed_ok, ok_at_start, written_this_run,
                   abort_cause, cache_at_start, cache_opened>>
    /\ UNCHANGED <<failed_calls, unitVars>>

\* an exception other than the per-segment failures is raised inside the try
\* block (ffmpeg binary missing, sqlite3 or report-file I/O error, interrupt)
UnexpectedException ==
    /\ pc \in TryPcs
    /\ rpc # "running"
    /\ faults < MaxFaults
    /\ faults' = faults + 1
    /\ exit_kind' = "raise"
    /\ abort_cause' = "unexpected"
    /\ Go("finally")
    /\ rpc' = "idle"
    /\ task' = EmptyFn
    /\ result' = EmptyFn
    /\ extract_pending' = {}
    /\ UNCHANGED <<segment_paths, segment_files, executor>>
    /\ UNCHANGED <<max_concurrent, sem, cleanup_segments>>
    /\ UNCHANGED <<run, force_redo, total_duration_ms, cached_segments, temp_dir, pass_all,
                   pass_uncached, matches, final_matches>>
    /\ UNCHANGED <<fileVars, storeVars>>
    /\ UNCHANGED <<kills, extracted, extract_calls, service_calls, segment_failures,
                   prev_clean, prev_final, completed_ok, ok_at_start, written_this_run,
                   cache_at_start, cache_opened, report_writes>>
    /\ UNCHANGED <<failed_calls, unitVars>>

\* finally: shutil.rmtree(temp_dir, ignore_errors=True); then the function
\* returns or the exception goes on
Finally ==
    /\ pc = "finally"
    /\ temp_dir' = TempDirAfterExit(exit_kind, temp_dir)
    /\ segment_files' = IF temp_dir' THEN segment_files ELSE {}
    /\ Go(IF exit_kind = "return" THEN "done" ELSE "raised")
    /\ UNCHANGED <<extract_pending, segment_paths, executor>>
    /\ UNCHANGED <<run, force_redo, total_duration_ms, cached_segments, pass_all,
                   pass_uncached, matches, final_matches, exit_kind>>
    /\ UNCHANGED <<fileVars, storeVars, recVars>>
    /\ UNCHANGED <<faults, kills, extracted, extract_calls, service_calls, segment_failures,
                   prev_clean, prev_final, completed_ok, ok_at_start, written_this_run,
                   abort_cause, cache_at_start, cache_opened, report_writes>>
    /\ UNCHANGED <<failed_calls, unitVars>>

\* the process is killed: nothing of the run's code runs any more; the cache
\* file, the report file and the temp directory stay as they are
Kill ==
    /\ pc \notin RestPcs
    /\ kills < MaxKills
    /\ kills' = kills + 1
    /\ Go("killed")
    /\ rpc' = "idle"
    /\ task' = EmptyFn
    /\ result' = EmptyFn
    /\ extract_pending' = {}
    /\ executor' = "none"
    /\ UNCHANGED <<segment_paths, segment_files>>
    /\ UNCHANGED <<max_concurrent, sem, cleanup_segments>>
    /\ UNCHANGED <<run, force_redo, total_duration_ms, cached_segments, temp_dir, pass_all,
                   pass_uncached, matches, final_matches, exit_kind>>
    /\ UNCHANGED <<fileVars, storeVars>>
    /\ UNCHANGED <<faults, extracted, extract_calls, service_calls, segment_failures,
                   prev_clean, prev_final, completed_ok, ok_at_start, written_this_run,
                   abort_cause, cache_at_start, cache_opened, report_writes>>
    /\ UNCHANGED <<failed_calls, unitVars>>

(***************************************************************************)
(* Specification of the pipeline: runs of recognize_segments_two_pass on   *)
(* one file, with faults and kills.                                        *)
(***************************************************************************)
Init ==
    /\ recording \in Files
    /\ cache = {}
    /\ report = NoReport
    /\ pc = "idle"
    /\ run = 0
    /\ force_redo = FALSE
    /\ total_duration_ms = 0
    /\ cached_segments = {}
    /\ temp_dir = FALSE
    /\ pass_all = <<>>
    /\ pass_uncached = <<>>
    /\ matches = <<>>
    /\ final_matches = <<>>
    /\ exit_kind = "none"
    /\ extract_pending = {}
    /\ segment_paths = {}
    /\ segment_files = {}
    /\ executor = "none"
    /\ rpc = "idle"
    /\ max_concurrent = SHAZAM_MAX_CONCURRENT
    /\ sem = SHAZAM_MAX_CONCURRENT
    /\ task = EmptyFn
    /\ result = EmptyFn
    /\ cleanup_segments = TRUE
    /\ faults = 0
    /\ kills = 0
    /\ extracted = {}
    /\ extract_calls = 0
    /\ service_calls = EmptyFn
    /\ segment_failures = {}
    /\ failed_calls = {}
    /\ prev_clean = FALSE
    /\ prev_final = <<>>
    /\ completed_ok = {}
    /\ ok_at_start = {}
    /\ written_this_run = {}
    /\ abort_cause = "none"
    /\ cache_at_start = {}
    /\ cache_opened = FALSE
    /\ report_writes = 0
    /\ phase_log = <<>>
    /\ results = <<>>
    /\ gap_list = <<>>
    /\ shown = <<>>
    /\ last_set = EmptyFn
    /\ last_op = NoOp
    /\ BatchAtRest

\* SegmentExtractor.__del__: an extractor that extract_and_recognize_parallel
\* left behind without shutdown() is collected at some later moment, once the
\* exception, whose traceback holds the frame with the extractor, is dropped
ExtractorDeleted ==
    /\ pc = "raised"
    /\ executor = "running"
    /\ executor' = "none"
    /\ UNCHANGED <<extract_pending, segment_paths, segment_files>>
    /\ UNCHANGED <<fileVars, storeVars, orchVars, recVars, histVars, unitVars>>

Next ==
    \/ StartRun
    \/ ProbeDuration
    \/ ProbeFails
    \/ InitCache
    \/ InitCacheFails
    \/ ForceRedoClear
    \/ ReadCachedSegments
    \/ MakeTempDir
    \/ Pass1Plan
    \/ \E s \in extract_pending : ExtractSegment(s)
    \/ \E s \in extract_pending : ExtractSegmentFails(s)
    \/ ExtractBatchReturn
    \/ RecognizeBatchStart
    \/ \E s \in DOMAIN task : SemaphoreWake(s)
    \/ \E s \in DOMAIN task : RecognizeResponse(s)
    \/ \E s \in DOMAIN task : RecognizeError(s)
    \/ RecognizeBatchReturn
    \/ ParallelReturn
    \/ Pass1Aggregate
    \/ Pass2Plan
    \/ FinalAggregate
    \/ UnexpectedException
    \/ Finally
    \/ ExtractorDeleted
    \/ Kill

Spec == Init /\ [][Next]_vars

(***************************************************************************)
(* Specification of the recognizer alone: one call of recognize_batch by a *)
(* direct caller, on any batch, over any cache content.                    *)
(***************************************************************************)
\* segment starts a direct caller passes
DirectStarts == {0, 7500, 15000}

\* rows an earlier call may have left: a no-match, or a match of track "Z"
EarlierRows ==
    {CHOOSE c \in {CacheSet({}, KeyOf(s), from_shazam_response(s, resp))} : TRUE :
        s \in DirectStarts, resp \in {NoTrackResponse, TrackResponse("Z")}}

InitRecognizer ==
    /\ recording \in Files
    /\ \E c \in SUBSET UNION EarlierRows :
         /\ \A r1, r2 \in c : r1.cache_key = r2.cache_key => r1 = r2
         /\ cache = c
    /\ report = NoReport
    /\ pc = "direct"
    /\ run = 0
    /\ force_redo = FALSE
    /\ total_duration_ms = 0
    /\ cached_segments = {}
    /\ temp_dir = TRUE
    /\ pass_all = <<>>
    /\ pass_uncached = <<>>
    /\ matches = <<>>
    /\ final_matches = <<>>
    /\ exit_kind = "none"
    /\ extract_pending = {}
    /\ segment_paths \in SUBSET DirectStarts \ {{}}
    /\ segment_files = segment_paths
    /\ executor = "none"
    /\ rpc = "called"
    /\ max_concurrent \in 1..MaxConcurrent
    /\ sem = max_concurrent
    /\ task = EmptyFn
    /\ result = EmptyFn
    /\ cleanup_segments \in BOOLEAN
    /\ faults = 0
    /\ kills = 0
    /\ extracted = {}
    /\ extract_calls = 0
    /\ service_calls = EmptyFn
    /\ segment_failures = {}
    /\ failed_calls = {}
    /\ prev_clean = FALSE
    /\ prev_final = <<>>
    /\ completed_ok = {}
    /\ ok_at_start = {}
    /\ written_this_run = {}
    /\ abort_cause = "none"
    /\ cache_at_start = cache
    /\ cache_opened = TRUE
    /\ report_writes = 0
    /\ phase_log = <<>>
    /\ results = <<>>
    /\ gap_list = <<>>
    /\ shown = <<>>
    /\ last_set = EmptyFn
    /\ last_op = NoOp
    /\ BatchAtRest

NextRecognizer ==
    \/ RecognizeBatchStart
    \/ \E s \in DOMAIN task : SemaphoreWake(s)
    \/ \E s \in DOMAIN task : RecognizeResponse(s)
    \/ \E s \in DOMAIN task : RecognizeError(s)
    \/ RecognizeBatchReturn

SpecRecognizer == InitRecognizer /\ [][NextRecognizer]_vars

(***************************************************************************)
(* Specifications of single functions: the inputs are drawn by the initial *)
(* state, the actions apply the functions.  Everything of the pipeline     *)
(* that the function does not touch stays at rest.                         *)
(***************************************************************************)
\* the variables no single-function specification touches
unitFrame == <<fileVars, report, run, force_redo, cached_segments, temp_dir, pass_uncached,
               final_matches, exit_kind, extractVars, recVars, histVars>>

\* no run has started and none starts
PipelineAtRest ==
    /\ recording = CHOOSE f \in Files : f.hash = "h_silent"
    /\ report = NoReport
    /\ run = 0
    /\ force_redo = FALSE
    /\ cached_segments = {}
    /\ temp_dir = FALSE
    /\ pass_uncached = <<>>
    /\ final_matches = <<>>
    /\ exit_kind = "none"
    /\ extract_pending = {}
    /\ segment_paths = {}
    /\ segment_files = {}
    /\ executor = "none"
    /\ rpc = "idle"
    /\ max_concurrent = SHAZAM_MAX_CONCURRENT
    /\ sem = SHAZAM_MAX_CONCURRENT
    /\ task = EmptyFn
    /\ result = EmptyFn
    /\ cleanup_segments = TRUE
    /\ faults = 0
    /\ kills = 0
    /\ extracted = {}
    /\ extract_calls = 0
    /\ service_calls = EmptyFn
    /\ segment_failures = {}
    /\ failed_calls = {}
    /\ prev_clean = FALSE
    /\ prev_final = <<>>
    /\ completed_ok = {}
    /\ ok_at_start = {}
    /\ written_this_run = {}
    /\ abort_cause = "none"
    /\ cache_at_start = {}
    /\ cache_opened = FALSE
    /\ report_writes = 0
    /\ phase_log = <<>>

\* the elements of a set of integers, in increasing order
RECURSIVE InOrder(_)
InOrder(S) ==
    IF S = {} THEN <<>>
    ELSE LET least == CHOOSE x \in S : \A y \in S : x <= y
         IN <<least>> \o InOrder(S \ {least})

\* every list over S of at most n elements
ListsUpTo(S, n) == UNION {[1..k -> S] : k \in 0..n}

(***************************************************************************)
(* aggregate_matches, TrackMatch.calculate_confidence and the final filter *)
(* of get_track_ids_from_audio_file.                                       *)
(***************************************************************************)
\* longest list of arbitrary SegmentResults given to aggregate_matches
MaxResults == 3

\* segment starts of the arbitrary lists, and of the scans of a whole cache
ShortStarts == {0, 10000, 97000}
ScanStarts == {0, 10000, 22500, 67500, 77500, 97000}

\* a payload with a track that has a key and an artist but no "title"
TrackResponseNoTitle(t) ==
    [shape |-> "track", key |-> t, title |-> None, subtitle |-> "artist_" \o t]

\* what a segment can have been recognised as
Outcomes == {NoTrackResponse, TrackResponse("A"), TrackResponse("B"), TrackResponseNoTitle("A")}

\* arbitrary lists: any order, repeated starts, any outcome
ShortLists ==
    ListsUpTo({from_shazam_response(s, resp) : s \in ShortStarts, resp \in Outcomes},
              MaxResults)

\* cache.get_all_results of a file: one result per start, in ORDER BY start_ms
ScanLists ==
    {LET starts == InOrder(ScanStarts)
     IN [i \in 1..Len(starts) |-> from_shazam_response(starts[i], f[starts[i]])] :
        f \in [ScanStarts -> {NoTrackResponse, TrackResponse("A"), TrackResponse("B")}]}

\* the same results handed over latest first
ReversedScanLists == {[i \in 1..Len(l) |-> l[Len(l) + 1 - i]] : l \in ScanLists}

\* TrackMatch.duration_ms
duration_ms(m) == m.last_seen_ms - m.first_seen_ms

\* TrackMatch.calculate_confidence:
\*   min(match_count / 3, 1.0) * 0.6 + min(duration_ms / 90000, 1.0) * 0.4
\* as the numerator of a fraction over ConfidenceDen.  On the inputs drawn here
\* the double-precision value compares with 0.7, 0 and 1 as the fraction does.
COUNT_FULL_SCORE == 3
SPREAD_FULL_SCORE_MS == 90000
COUNT_WEIGHT_TENTHS == 6
SPREAD_WEIGHT_TENTHS == 4
ConfidenceDen == 10 * COUNT_FULL_SCORE * SPREAD_FULL_SCORE_MS
calculate_confidence_uncapped(m) ==
    COUNT_WEIGHT_TENTHS * match_count(m) * SPREAD_FULL_SCORE_MS
    + SPREAD_WEIGHT_TENTHS * duration_ms(m) * COUNT_FULL_SCORE
calculate_confidence(m) ==
    COUNT_WEIGHT_TENTHS * Min(match_count(m), COUNT_FULL_SCORE) * SPREAD_FULL_SCORE_MS
    + SPREAD_WEIGHT_TENTHS * Min(duration_ms(m), SPREAD_FULL_SCORE_MS) * COUNT_FULL_SCORE

SHAZAM_MIN_MATCHES == 2
\* SHAZAM_MIN_CONFIDENCE = 0.7
SHAZAM_MIN_CONFIDENCE_TENTHS == 7

\* the condition of the final filter
PassesFilter_either(m) ==
    \/ match_count(m) >= SHAZAM_MIN_MATCHES
    \/ 10 * calculate_confidence(m) >= SHAZAM_MIN_CONFIDENCE_TENTHS * ConfidenceDen
PassesFilter(m) ==
    /\ match_count(m) >= SHAZAM_MIN_MATCHES
    /\ 10 * calculate_confidence(m) >= SHAZAM_MIN_CONFIDENCE_TENTHS * ConfidenceDen

\* the tracks get_track_ids_from_audio_file prints, in the order it prints them
FinalFilter(ms) == SelectSeq(SortByFirstSeen(ms, <<>>), PassesFilter)

\* matches = aggregate_matches(results)
AggregateCall ==
    /\ pc = "unit_aggregate"
    /\ matches' = aggregate_matches(results)
    /\ pc' = "unit_filter"
    /\ UNCHANGED <<unitFrame, cache, total_duration_ms, pass_all, unitVars>>

\* the sort and the filter of get_track_ids_from_audio_file
FilterCall ==
    /\ pc = "unit_filter"
    /\ shown' = FinalFilter(matches)
    /\ pc' = "unit_done"
    /\ UNCHANGED <<unitFrame, cache, total_duration_ms, pass_all, matches,
                   results, gap_list, last_set, last_op, batchVars>>

InitAggregator ==
    /\ PipelineAtRest
    /\ pc = "unit_aggregate"
    /\ cache = {}
    /\ total_duration_ms = 0
    /\ pass_all = <<>>
    /\ matches = <<>>
    /\ results \in ShortLists \cup ScanLists \cup ReversedScanLists
    /\ gap_list = <<>>
    /\ shown = <<>>
    /\ last_set = EmptyFn
    /\ last_op = NoOp
    /\ BatchAtRest

NextAggregator ==
    \/ AggregateCall
    \/ FilterCall

SpecAggregator == InitAggregator /\ [][NextAggregator]_vars

(***************************************************************************)
(* generate_pass1_segments, find_gaps and generate_pass2_segments.         *)
(***************************************************************************)
\* most tracks in the dict given to find_gaps, most gaps in an arbitrary list
MaxTracks == 2
MaxGaps == 2

\* durations given to generate_pass1_segments: every multiple of 2500 ms up
\* to ten minutes, and durations next to the tail tolerance
Pass1Durations == {2500 * k : k \in 0..240} \cup {9999, 10001, 39999, 40001, 599999}

\* durations given to find_gaps, and the times a track can have been seen at
GapDurations == {0, 30000, 75000, 105000, 120000, 150000, 600000}
SeenTimes == {15000 * k : k \in 0..7}

\* a TrackMatch as the aggregator builds it from hits at first and last
TrackMatchSeen(id, first, last) ==
    [shazam_id |-> id, title |-> "title_" \o id, artist |-> "artist_" \o id,
     first_seen_ms |-> first, last_seen_ms |-> last,
     match_timestamps |-> IF first = last THEN <<first>> ELSE <<first, last>>]

\* the dicts of up to MaxTracks tracks seen inside a file of duration T
MatchDicts(T) ==
    LET ids == <<"A", "B", "C">>
        seen == {fl \in SeenTimes \X SeenTimes : fl[1] <= fl[2] /\ fl[2] < T}
    IN {[i \in 1..Len(fls) |-> TrackMatchSeen(ids[i], fls[i][1], fls[i][2])] :
           fls \in ListsUpTo(seen, MaxTracks)}

\* arbitrary gaps given to generate_pass2_segments
GapEnds == {0, 7500, 10000, 22500, 45000, 52500}
GapLists ==
    ListsUpTo({g \in GapEnds \X GapEnds : g[1] < g[2]} \cup {<<7500, 7500>>, <<22500, 10000>>},
              MaxGaps)

\* pass1_all = generate_pass1_segments(total_duration_ms)
GeneratePass1Call ==
    /\ pc = "unit_pass1"
    /\ pass_all' = generate_pass1_segments(total_duration_ms)
    /\ pc' = "unit_pass1_done"
    /\ UNCHANGED <<unitFrame, cache, total_duration_ms, matches, unitVars>>

\* gaps = find_gaps(matches, total_duration_ms)
FindGapsCall ==
    /\ pc = "unit_find_gaps"
    /\ gap_list' = find_gaps(matches, total_duration_ms, SHAZAM_MIN_GAP_MS)
    /\ pc' = "unit_gaps_found"
    /\ UNCHANGED <<unitFrame, cache, total_duration_ms, pass_all, matches,
                   results, shown, last_set, last_op, batchVars>>

\* pass2_all = generate_pass2_segments(gaps)
GeneratePass2Call ==
    /\ pc \in {"unit_pass2", "unit_gaps_found"}
    /\ pass_all' = generate_pass2_segments(gap_list)
    /\ pc' = "unit_pass2_done"
    /\ UNCHANGED <<unitFrame, cache, total_duration_ms, matches, unitVars>>

InitPlanner ==
    /\ PipelineAtRest
    /\ cache = {}
    /\ pass_all = <<>>
    /\ results = <<>>
    /\ shown = <<>>
    /\ last_set = EmptyFn
    /\ last_op = NoOp
    /\ BatchAtRest
    /\ \/ /\ pc = "unit_pass1"
          /\ total_duration_ms \in Pass1Durations
          /\ matches = <<>>
          /\ gap_list = <<>>
       \/ /\ pc = "unit_find_gaps"
          /\ total_duration_ms \in GapDurations
          /\ matches \in MatchDicts(total_duration_ms)
          /\ gap_list = <<>>
       \/ /\ pc = "unit_pass2"
          /\ total_duration_ms = 0
          /\ matches = <<>>
          /\ gap_list \in GapLists

NextPlanner ==
    \/ GeneratePass1Call
    \/ FindGapsCall
    \/ GeneratePass2Call

SpecPlanner == InitPlanner /\ [][NextPlanner]_vars

(***************************************************************************)
(* SegmentCache on its own: set, get and clear_for_audio in any order.     *)
(***************************************************************************)
\* the keys: two files, two starts, and one segment of another duration
CacheKeys ==
    {SegmentCacheKey("h1", 0, SHAZAM_SEGMENT_LENGTH_MS),
     SegmentCacheKey("h1", 30000, SHAZAM_SEGMENT_LENGTH_MS),
     SegmentCacheKey("h1", 0, 10000),
     SegmentCacheKey("h2", 0, SHAZAM_SEGMENT_LENGTH_MS)}

\* the results: every shape of payload, and one result of another start
CacheResults ==
    {from_shazam_response(0, resp) :
        resp \in {NullResponse, EmptyResponse, NoTrackResponse,
                  TrackResponse("A"), TrackResponse("B")}}
    \cup {from_shazam_response(30000, TrackResponse("A"))}

\* cache.set(key, result)
SetOp(key, res) ==
    /\ pc = "unit_cache"
    /\ cache' = CacheSet(cache, key, res)
    /\ last_set' = [k \in DOMAIN last_set \cup {KeyStr(key)} |->
                       IF k = KeyStr(key) THEN res ELSE last_set[k]]
    /\ last_op' = [op |-> "set", key |-> key, result |-> res,
                   replaced |-> CacheHasKey(cache, key),
                   rows_before |-> Cardinality(cache)]
    /\ UNCHANGED <<unitFrame, pc, total_duration_ms, pass_all, matches,
                   results, gap_list, shown, batchVars>>

\* cache.clear_for_audio(audio_hash)
ClearOp(h) ==
    /\ pc = "unit_cache"
    /\ cache' = clear_for_audio(cache, h)
    /\ last_set' = [k \in {q \in DOMAIN last_set : q[1] # h} |-> last_set[k]]
    /\ last_op' = [op |-> "clear", audio_hash |-> h,
                   deleted |-> clear_for_audio_deleted(cache, h)]
    /\ UNCHANGED <<unitFrame, pc, total_duration_ms, pass_all, matches,
                   results, gap_list, shown, batchVars>>

InitSegmentCache ==
    /\ PipelineAtRest
    /\ pc = "unit_cache"
    /\ cache = {}
    /\ total_duration_ms = 0
    /\ pass_all = <<>>
    /\ matches = <<>>
    /\ results = <<>>
    /\ gap_list = <<>>
    /\ shown = <<>>
    /\ last_set = EmptyFn
    /\ last_op = NoOp
    /\ BatchAtRest

NextSegmentCache ==
    \/ \E key \in CacheKeys, res \in CacheResults : SetOp(key, res)
    \/ \E key \in CacheKeys : ClearOp(key.audio_file_hash)

SpecCache == InitSegmentCache /\ [][NextSegmentCache]_vars

(***************************************************************************)
(* The batch functions on their own: extract_batch, extract_batch_ordered, *)
(* recognize_batch and recognize_batch_ordered (without a cache), on any   *)
(* list of segments and under every order of completion.                   *)
(***************************************************************************)
\* longest list of segments given to a batch function, and most service
\* calls of a batch that raise
MaxBatch == 3
MaxBatchFaults == 1
\* largest max_workers a SegmentExtractor is built with
MaxWorkers == 2

ExtractFns == {"extract_batch", "extract_batch_ordered"}
RecognizeFns == {"recognize_batch", "recognize_batch_ordered"}

\* segment starts of the lists; a list may name a start twice
BatchStarts == {0, 7500, 15000}
BatchLists == ListsUpTo(BatchStarts, MaxBatch)

\* os.path.join(temp_dir, f"segment_{spec.start_ms}.mp3")
SegmentPath_by_minute(start_ms) == <<"segment", start_ms \div 60000>>
SegmentPath(start_ms) == <<"segment", start_ms>>

\* the value of extract_with_tracking / extract_single: the pair, or None
NonePair == <<>>
ExtractValue(i) ==
    IF job[i] = "ok"
    THEN <<SegmentPath(batch_call.segments[i]), batch_call.segments[i]>>
    ELSE NonePair

\* the value of recognize_segment without a cache
RecognizeValue(i) ==
    IF job[i] = "ok"
    THEN from_shazam_response(batch_call.segments[i],
                              ServiceResponse(recording, batch_call.segments[i]))
    ELSE EmptySegmentResult(batch_call.segments[i])

\* [r for r in results if r is not None]
ExtractedPairs_unfiltered(rs) == rs
ExtractedPairs(rs) == SelectSeq(rs, LAMBDA r : r # NonePair)

\* asyncio.gather: the values in the order of the awaitables
GatherOrder_as_completed(n, finished) == finished
GatherOrder(n, finished) == [k \in 1..n |-> k]

\* the order in which the function puts the values into its list
ResultOrder ==
    IF batch_call.fn \in {"extract_batch", "recognize_batch"} THEN done_order
    ELSE GatherOrder(Len(job), done_order)

Unfinished == {i \in 1..Len(job) : job[i] \in {"pending", "extracting", "waiting", "in_call"}}
Extracting == {i \in 1..Len(job) : job[i] = "extracting"}

\* ThreadPoolExecutor(max_workers): a queued call is taken up by a worker
\* thread when fewer than max_workers calls are running
WorkerFree_unbounded(running, max_workers) == TRUE
WorkerFree(running, max_workers) == running < max_workers

\* a worker thread takes the extraction of position i from the queue and
\* runs ffmpeg (subprocess.run blocks the thread until ffmpeg exits)
ExtractStarts(i) ==
    /\ pc = "unit_batch"
    /\ batch_call.fn \in ExtractFns
    /\ returned.state = "running"
    /\ job[i] = "pending"
    /\ WorkerFree(Cardinality(Extracting), batch_call.limit)
    /\ job' = [job EXCEPT ![i] = "extracting"]
    /\ UNCHANGED <<batch_call, done_order, collector, returned, calls_in_pause>>
    /\ UNCHANGED <<unitFrame, pc, cache, total_duration_ms, pass_all, matches,
                   results, gap_list, shown, last_set, last_op>>
InCall == {i \in 1..Len(job) : job[i] = "in_call"}
WaitingJobs == {i \in 1..Len(job) : job[i] = "waiting"}

\* ffmpeg exits 0 for the spec at position i
ExtractCompletes(i) ==
    /\ pc = "unit_batch"
    /\ batch_call.fn \in ExtractFns
    /\ returned.state = "running"
    /\ job[i] = "extracting"
    /\ job' = [job EXCEPT ![i] = "ok"]
    /\ done_order' = Append(done_order, i)
    /\ UNCHANGED <<batch_call, collector, returned, calls_in_pause>>
    /\ UNCHANGED <<unitFrame, pc, cache, total_duration_ms, pass_all, matches,
                   results, gap_list, shown, last_set, last_op>>

\* ffmpeg exits non-zero for the spec at position i: CalledProcessError
ExtractFails(i) ==
    /\ pc = "unit_batch"
    /\ batch_call.fn \in ExtractFns
    /\ returned.state = "running"
    /\ job[i] = "extracting"
    /\ job' = [job EXCEPT ![i] = "failed"]
    /\ done_order' = Append(done_order, i)
    /\ returned' = IF CalledProcessErrorCaught THEN returned
                   ELSE [state |-> "raised", value |-> <<>>]
    /\ UNCHANGED <<batch_call, collector, calls_in_pause>>
    /\ UNCHANGED <<unitFrame, pc, cache, total_duration_ms, pass_all, matches,
                   results, gap_list, shown, last_set, last_op>>

\* every extraction has finished: the pairs are returned
ExtractReturn ==
    /\ pc = "unit_batch"
    /\ batch_call.fn \in ExtractFns
    /\ returned.state = "running"
    /\ Unfinished = {}
    /\ returned' = [state |-> "returned",
                    value |-> ExtractedPairs([k \in 1..Len(job) |->
                                                 ExtractValue(ResultOrder[k])])]
    /\ pc' = "unit_batch_done"
    /\ UNCHANGED <<batch_call, job, done_order, collector, calls_in_pause>>
    /\ UNCHANGED <<unitFrame, cache, total_duration_ms, pass_all, matches,
                   results, gap_list, shown, last_set, last_op>>

\* the positions in the order in which their tasks were created
RECURSIVE FirstWaiting(_)
FirstWaiting(k) ==
    IF job[batch_call.spawn[k]] = "waiting" THEN batch_call.spawn[k]
    ELSE FirstWaiting(k + 1)

\* the tasks are created and each runs up to its first suspension: as many
\* as the semaphore admits call the service, the others wait for a slot in
\* the order in which they were created
RecognizeBegin ==
    /\ pc = "unit_batch"
    /\ batch_call.fn \in RecognizeFns
    /\ \A i \in 1..Len(job) : job[i] = "pending"
    /\ Len(job) > 0
    /\ LET first == {batch_call.spawn[k] : k \in 1..Min(batch_call.limit, Len(job))}
       IN job' = [i \in 1..Len(job) |-> IF i \in first THEN "in_call" ELSE "waiting"]
    /\ UNCHANGED <<batch_call, done_order, collector, returned, calls_in_pause>>
    /\ UNCHANGED <<unitFrame, pc, cache, total_duration_ms, pass_all, matches,
                   results, gap_list, shown, last_set, last_op>>

\* the service call of position i ends, with a response or with an exception
\* that recognize_segment catches; leaving "async with" releases the slot,
\* which wakes the first waiting task, and that task calls the service
TaskCompletes(i, outcome) ==
    /\ pc = "unit_batch"
    /\ batch_call.fn \in RecognizeFns
    /\ job[i] = "in_call"
    /\ outcome = "failed" =>
          Cardinality({j \in 1..Len(job) : job[j] = "failed"}) < MaxBatchFaults
    /\ done_order' = Append(done_order, i)
    /\ IF WaitingJobs = {}
       THEN /\ job' = [job EXCEPT ![i] = outcome]
            /\ UNCHANGED calls_in_pause
       ELSE LET next == FirstWaiting(1)
            IN /\ job' = [job EXCEPT ![i] = outcome, ![next] = "in_call"]
               /\ calls_in_pause' = IF collector.pausing
                                    THEN calls_in_pause \cup {next}
                                    ELSE calls_in_pause
    /\ UNCHANGED <<batch_call, collector, returned>>
    /\ UNCHANGED <<unitFrame, pc, cache, total_duration_ms, pass_all, matches,
                   results, gap_list, shown, last_set, last_op>>

\* recognize_batch, lines 135-142: the loop takes the next finished result;
\* after the 5th, 10th, ... it sleeps
Collect ==
    /\ pc = "unit_batch"
    /\ batch_call.fn = "recognize_batch"
    /\ ~collector.pausing
    /\ collector.taken < Len(done_order)
    /\ collector' = [taken |-> collector.taken + 1,
                     pausing |-> collector.taken % 5 = 4,
                     pauses |-> collector.pauses + (IF collector.taken % 5 = 4 THEN 1 ELSE 0)]
    /\ UNCHANGED <<batch_call, job, done_order, returned, calls_in_pause>>
    /\ UNCHANGED <<unitFrame, pc, cache, total_duration_ms, pass_all, matches,
                   results, gap_list, shown, last_set, last_op>>

\* asyncio.sleep(2.0) is over
PauseEnds ==
    /\ pc = "unit_batch"
    /\ collector.pausing
    /\ collector' = [collector EXCEPT !.pausing = FALSE]
    /\ UNCHANGED <<batch_call, job, done_order, returned, calls_in_pause>>
    /\ UNCHANGED <<unitFrame, pc, cache, total_duration_ms, pass_all, matches,
                   results, gap_list, shown, last_set, last_op>>

\* the loop of recognize_batch has taken every result, or gather has every
\* value: the results are returned
RecognizeReturn ==
    /\ pc = "unit_batch"
    /\ batch_call.fn \in RecognizeFns
    /\ Unfinished = {}
    /\ batch_call.fn = "recognize_batch" =>
          collector.taken = Len(job) /\ ~collector.pausing
    /\ returned' = [state |-> "returned",
                    value |-> [k \in 1..Len(job) |-> RecognizeValue(ResultOrder[k])]]
    /\ pc' = "unit_batch_done"
    /\ UNCHANGED <<batch_call, job, done_order, collector, calls_in_pause>>
    /\ UNCHANGED <<unitFrame, cache, total_duration_ms, pass_all, matches,
                   results, gap_list, shown, last_set, last_op>>

\* everything but the batch variables, for a batch function called on its own
BatchInit ==
    /\ PipelineAtRest
    /\ pc = "unit_batch"
    /\ cache = {}
    /\ total_duration_ms = 0
    /\ pass_all = <<>>
    /\ matches = <<>>
    /\ results = <<>>
    /\ gap_list = <<>>
    /\ shown = <<>>
    /\ last_set = EmptyFn
    /\ last_op = NoOp
    /\ job = [i \in 1..Len(batch_call.segments) |-> "pending"]
    /\ done_order = <<>>
    /\ collector = [taken |-> 0, pausing |-> FALSE, pauses |-> 0]
    /\ returned = Running
    /\ calls_in_pause = {}

\* a pass-1 plan long enough for recognize_batch to pause before it is through
MaxLongBatch == 7
LongBatch == [i \in 1..MaxLongBatch |-> (i - 1) * SHAZAM_PASS1_STEP_MS]

\* the orders in which n tasks can have been created: gather and the
\* extractor keep the order of the list, as_completed iterates over a set
Identity(n) == [k \in 1..n |-> k]
SpawnOrders(fn, n) ==
    IF fn = "recognize_batch"
    THEN {f \in [1..n -> 1..n] : \A i, j \in 1..n : i # j => f[i] # f[j]}
    ELSE {Identity(n)}

InitBatch ==
    /\ \/ \E fn \in ExtractFns \cup RecognizeFns, segments \in BatchLists,
             limit \in 1..Max(MaxConcurrent, MaxWorkers) :
             /\ fn \in ExtractFns => limit <= MaxWorkers
             /\ fn \in RecognizeFns => limit <= MaxConcurrent
             /\ \E spawn \in SpawnOrders(fn, Len(segments)) :
                   batch_call = [fn |-> fn, segments |-> segments, limit |-> limit,
                                 spawn |-> spawn]
       \/ batch_call = [fn |-> "recognize_batch", segments |-> LongBatch,
                        limit |-> SHAZAM_MAX_CONCURRENT,
                        spawn |-> Identity(MaxLongBatch)]
    /\ BatchInit

NextBatch ==
    \/ \E i \in 1..Len(job) : ExtractStarts(i)
    \/ \E i \in 1..Len(job) : ExtractCompletes(i)
    \/ \E i \in 1..Len(job) : ExtractFails(i)
    \/ ExtractReturn
    \/ RecognizeBegin
    \/ \E i \in 1..Len(job), outcome \in {"ok", "failed"} : TaskCompletes(i, outcome)
    \/ Collect
    \/ PauseEnds
    \/ RecognizeReturn

SpecBatch == InitBatch /\ [][NextBatch]_vars

(***************************************************************************)
(* Properties.                                                             *)
(***************************************************************************)
\* the current run has been at position p
Visited(p) == \E i \in 1..Len(phase_log) : phase_log[i] = p

\* the current pass: what is planned, and what the cache holds for the file
Planned == SeqToSet(pass_all)
CachedNow == get_cached_segments(cache, audio_hash)

\* a step of the run that is neither a fault nor a kill; the two aggregation
\* steps, whose only guard is the position, are left out
RunStep ==
    \/ ProbeDuration
    \/ InitCache
    \/ ForceRedoClear
    \/ ReadCachedSegments
    \/ MakeTempDir
    \/ Pass1Plan
    \/ \E s \in extract_pending : ExtractSegment(s)
    \/ ExtractBatchReturn
    \/ RecognizeBatchStart
    \/ \E s \in DOMAIN task : SemaphoreWake(s)
    \/ \E s \in DOMAIN task : RecognizeResponse(s)
    \/ RecognizeBatchReturn
    \/ ParallelReturn
    \/ Pass2Plan
    \/ Finally

\* C1 (idempotence of a run): in a run with force_redo = false that follows a
\* run which returned with no extraction or recognition failure, ffmpeg is
\* never invoked and the recognition service is never called, in pass 1 and
\* in pass 2, and the run returns the track matches the earlier run returned.
C1_IdempotentRerun ==
    (run > 0 /\ prev_clean /\ ~force_redo) =>
        /\ extract_calls = 0
        /\ extracted = {}
        /\ DOMAIN service_calls = {}
        /\ pc \in ExtractPcs \cup RecognizePcs => pass_uncached = <<>>
        /\ pc = "done" => final_matches = prev_final

C1_Witness ==
    /\ pc = "done"
    /\ prev_clean
    /\ ~force_redo
    /\ Visited("pass2_plan")
    /\ final_matches # <<>>
    /\ \E row \in cache_at_start : row.track_id = None

\* C2 (cache-first recognition): in a batch, a segment whose key had a row in
\* the cache when recognize_segment was called is finished at once with the
\* SegmentResult of that row; the service is never called for it, it never
\* holds a slot of the semaphore, and its row is not written.
C2_CacheFirst ==
    rpc \in {"running", "returned"} =>
        /\ \A s \in segment_paths :
             CacheHasKey(cache_at_start, KeyOf(s)) =>
                /\ task[s] = "done"
                /\ result[s] = CacheGet(cache_at_start, KeyOf(s))
                /\ s \notin DOMAIN service_calls
                /\ s \notin written_this_run
                /\ CacheGet(cache, KeyOf(s)) = CacheGet(cache_at_start, KeyOf(s))
        /\ sem = max_concurrent - Cardinality(InFlight)
        /\ InFlight \cup Waiting \subseteq
             {s \in segment_paths : ~CacheHasKey(cache_at_start, KeyOf(s))}

C2_Witness ==
    /\ rpc = "returned"
    /\ \E s \in segment_paths :
         /\ CacheHasKey(cache_at_start, KeyOf(s))
         /\ result[s].track_id = "Z"
         /\ ServiceResponse(recording, s) # TrackResponse("Z")
    /\ \E s \in segment_paths : s \in DOMAIN service_calls

\* C3 (only failed calls are left uncached): the file has a cache row exactly
\* for the segments whose service call returned a response, a track or a
\* no-match, and the row holds the result built from the response; a call
\* that raised returns the empty SegmentResult and leaves no row, so a later
\* pass or run that plans the segment finds it uncached and attempts it again.
C3_OnlyFailedCallsUncached ==
    /\ CachedNow = completed_ok
    /\ \A s \in DOMAIN result :
         IF s \in failed_calls
         THEN result[s] = EmptySegmentResult(s)
         ELSE /\ result[s] = from_shazam_response(s, ServiceResponse(recording, s))
              /\ CacheHasKey(cache, KeyOf(s))
              /\ CacheGet(cache, KeyOf(s)) = result[s]
    /\ \A s \in failed_calls : ~CacheHasKey(cache, KeyOf(s))
    /\ pc \in ExtractPcs \cup RecognizePcs =>
         failed_calls \cap Planned \subseteq SeqToSet(pass_uncached)

C3_Witness ==
    /\ run = 2
    /\ segment_failures = {}
    /\ pc \in RecognizePcs
    /\ \E s \in failed_calls : s \in DOMAIN service_calls
    /\ \E row \in cache : row.track_id = None
    /\ \E row \in cache : row.track_id # None

\* C4 (bounded recognition concurrency): in every state of a batch the number
\* of service calls in flight is at most max_concurrent, whatever the batch
\* and the order in which calls finish; the orchestrator configures 1.
C4_BoundedConcurrency ==
    /\ Cardinality(InFlight) <= max_concurrent
    /\ sem >= 0
    /\ sem + Cardinality(InFlight) = max_concurrent
    /\ SHAZAM_MAX_CONCURRENT = 1

C4_Witness ==
    /\ Cardinality(InFlight) = max_concurrent
    /\ Waiting # {}
    /\ \E s \in DOMAIN task : task[s] = "done" /\ s \in DOMAIN service_calls

\* C5 (only uncached segments are extracted): in each pass the starts handed
\* to ffmpeg are exactly the planned starts of the pass without the starts
\* get_cached_segments returned just before the pass, and no start that has a
\* row is extracted or handed to the recognizer.
C5_ExtractedIsPlannedMinusCached ==
    /\ pc \in ExtractPcs =>
         /\ extracted \cup extract_pending = Planned \ CachedNow
         /\ extracted \cap extract_pending = {}
    /\ (pc \in RecognizePcs /\ rpc = "called") =>
         /\ extracted = Planned \ CachedNow
         /\ segment_paths \subseteq extracted
    /\ pc \in RecognizePcs =>
         /\ extracted = Planned \ cached_segments
         /\ DOMAIN task \subseteq extracted
    /\ pc \in {"pass1_aggregate", "pass2_plan", "final_aggregate"} =>
         extracted = Planned \ cached_segments

C5_Witness ==
    /\ pc = "pass2_recognize"
    /\ rpc = "called"
    /\ extracted # {}
    /\ Planned \cap cached_segments # {}

\* C6 (crash safety): at every point of a run, so wherever a kill lands, each
\* segment whose service call has returned a response has its row in the
\* cache, holding that result; and a run with force_redo = false never hands
\* to ffmpeg or to the service a segment that had completed before it started.
C6_CrashSafety ==
    /\ \A s \in completed_ok :
         /\ CacheHasKey(cache, KeyOf(s))
         /\ CacheGet(cache, KeyOf(s)) = from_shazam_response(s, ServiceResponse(recording, s))
    /\ (run > 0 /\ ~force_redo) =>
         (extracted \cup DOMAIN service_calls) \cap ok_at_start = {}

C6_Witness ==
    /\ pc = "done"
    /\ run = 2
    /\ kills = 1
    /\ ~force_redo
    /\ ok_at_start # {}
    /\ extract_calls > 0

C8_ProbeFailure ==
    (pc = "aborted" /\ abort_cause = "probe") =>
        /\ ~cache_opened
        /\ cache = cache_at_start
        /\ ~temp_dir
        /\ extract_calls = 0
        /\ service_calls = EmptyFn
        /\ report_writes = 0
        /\ phase_log = <<"probe_duration", "aborted">>

C8_Witness ==
    /\ pc = "aborted"
    /\ abort_cause = "probe"
    /\ force_redo
    /\ cache # {}
    /\ report.phase = "Complete"

\* C9 (temp directory release): when recognize_segments_two_pass has left its
\* try block, by returning or by an exception, the temp directory it created
\* does not exist any more.
C9_TempDirRemoved ==
    pc \in {"done", "raised"} =>
        /\ Visited("pass1_plan")
        /\ ~temp_dir
        /\ segment_files = {}

C9_Witness ==
    /\ pc = "raised"
    /\ Visited("pass1_recognize")
    /\ ~temp_dir

\* C10 (force_redo): in a run with force_redo, once the clear has run every
\* row of the file in the cache was written by this run; pass 1 skips no
\* planned segment: each is handed to ffmpeg and each extracted one to the
\* service; and what the run returns is aggregated from rows of this run.
C10_ForceRedo ==
    (force_redo /\ Visited("read_cached")) =>
        /\ CachedNow \subseteq written_this_run
        /\ cached_segments \subseteq written_this_run
        /\ pc \in {"pass1_extract", "pass1_recognize", "pass1_aggregate", "pass2_plan"} =>
             /\ pass_all = generate_pass1_segments(total_duration_ms)
             /\ pass_uncached = pass_all
        /\ pc \in {"pass1_aggregate", "pass2_plan"} =>
             /\ extracted = Planned
             /\ segment_paths \subseteq DOMAIN service_calls
             /\ "extraction" \notin segment_failures => segment_paths = Planned
        /\ pc = "done" =>
             final_matches = aggregate_matches(get_all_results(cache, audio_hash))

C10_Witness ==
    /\ pc = "done"
    /\ force_redo
    /\ \E row \in cache_at_start : row.track_id # None
    /\ extract_calls > 0

\* the indexes of the results that hit track id
HitsOf(id) == {k \in 1..Len(results) : results[k].track_id = id}

\* C11 (aggregation correctness): aggregate_matches returns one TrackMatch for
\* each distinct non-null track_id of the results and none for anything else,
\* and the match_count of each is the number of distinct start_ms among the
\* results that hit its track.
C11_AggregationCorrectness ==
    pc \in {"unit_filter", "unit_done"} =>
        /\ {matches[i].shazam_id : i \in 1..Len(matches)} =
             {results[k].track_id : k \in 1..Len(results)} \ {None}
        /\ \A i, j \in 1..Len(matches) :
             matches[i].shazam_id = matches[j].shazam_id => i = j
        /\ \A i \in 1..Len(matches) :
             match_count(matches[i]) =
                Cardinality({results[k].start_ms : k \in HitsOf(matches[i].shazam_id)})

\* what the code establishes: match_count is the number of results that hit
\* the track, a start counted as often as it occurs
C11_CountsHits ==
    pc \in {"unit_filter", "unit_done"} =>
        /\ {matches[i].shazam_id : i \in 1..Len(matches)} =
             {results[k].track_id : k \in 1..Len(results)} \ {None}
        /\ \A i, j \in 1..Len(matches) :
             matches[i].shazam_id = matches[j].shazam_id => i = j
        /\ \A i \in 1..Len(matches) :
             match_count(matches[i]) = Cardinality(HitsOf(matches[i].shazam_id))

\* every reordering of the list given to aggregate_matches
Reorderings ==
    LET n == Len(results)
    IN {[i \in 1..n |-> results[p[i]]] :
           p \in {q \in [1..n -> 1..n] : \A i, j \in 1..n : q[i] = q[j] => i = j}}

\* the TrackMatch of each track, the order of the tracks in the dict left out
PerTrack(ms) == {ms[i] : i \in 1..Len(ms)}

\* a TrackMatch without the fields that depend on the order of the scan
OrderFree(m) ==
    [shazam_id |-> m.shazam_id, first_seen_ms |-> m.first_seen_ms,
     last_seen_ms |-> m.last_seen_ms, match_count |-> match_count(m),
     timestamps |-> [s \in SeqToSet(m.match_timestamps) |->
                        Cardinality({k \in 1..Len(m.match_timestamps) :
                                        m.match_timestamps[k] = s})]]

\* C12 (aggregation is order-independent): for every permutation of the list
\* of results aggregate_matches returns, for every track, the same TrackMatch:
\* the same track ids, title, artist, first_seen_ms, last_seen_ms, match
\* timestamps and match_count.
C12_OrderIndependent ==
    pc \in {"unit_filter", "unit_done"} =>
        \A permuted \in Reorderings :
            PerTrack(aggregate_matches(permuted)) = PerTrack(matches)

\* what the code establishes: the track ids, first_seen_ms, last_seen_ms,
\* match_count and the timestamps as a bag do not depend on the order
C12_OrderFreeFields ==
    pc \in {"unit_filter", "unit_done"} =>
        \A permuted \in Reorderings :
            {OrderFree(m) : m \in PerTrack(aggregate_matches(permuted))} =
            {OrderFree(m) : m \in PerTrack(matches)}

\* the violation of C12 that is not a matter of list order: two hits of one
\* track that carry different titles
C12_TitleDependsOnOrder ==
    /\ pc = "unit_filter"
    /\ \E permuted \in Reorderings :
         \E m1 \in PerTrack(matches), m2 \in PerTrack(aggregate_matches(permuted)) :
            m1.shazam_id = m2.shazam_id /\ m1.title # m2.title

\* the padded region of a match, as the specification of find_gaps states it
PaddedRegion(m) ==
    << Max(0, m.first_seen_ms - SHAZAM_SEGMENT_LENGTH_MS),
       Min(total_duration_ms, m.last_seen_ms + 2 * SHAZAM_SEGMENT_LENGTH_MS) >>

\* the maximal intervals of [0, total_duration_ms] that no padded region of
\* the matches meets: the leading, the inter-region and the trailing ones
Uncovered ==
    LET regions == {PaddedRegion(matches[i]) : i \in 1..Len(matches)}
    IN {g \in ({0} \cup {r[2] : r \in regions}) \X
              ({total_duration_ms} \cup {r[1] : r \in regions}) :
           /\ g[1] < g[2]
           /\ \A r \in regions : r[2] <= g[1] \/ r[1] >= g[2]}

UncoveredLong == {g \in Uncovered : g[2] - g[1] >= SHAZAM_MIN_GAP_MS}

\* a list of gaps is in increasing order, without repetition
GapsInOrder(gs) == \A i, j \in 1..Len(gs) : i < j => gs[i][2] <= gs[j][1]

\* C13 (find_gaps returns the long uncovered intervals): with a non-empty
\* match set find_gaps returns exactly the uncovered intervals of length
\* >= min_gap_ms, leading, inter-region and trailing, one of length exactly
\* min_gap_ms included, and nothing shorter.
C13_GapsAreLongUncovered ==
    (pc = "unit_gaps_found" /\ matches # <<>>) =>
        /\ SeqToSet(gap_list) = UncoveredLong
        /\ GapsInOrder(gap_list)

\* what the code establishes: the only long uncovered interval find_gaps can
\* leave out is a leading one of length exactly min_gap_ms
C13_AllButExactLeading ==
    (pc = "unit_gaps_found" /\ matches # <<>>) =>
        /\ SeqToSet(gap_list) \subseteq UncoveredLong
        /\ UncoveredLong \ SeqToSet(gap_list) \subseteq {<<0, SHAZAM_MIN_GAP_MS>>}
        /\ GapsInOrder(gap_list)

\* C14 (find_gaps boundary cases): with no matches find_gaps returns the one
\* gap (0, total_duration_ms), for every duration; with matches whose padded
\* regions leave no uncovered interval of length >= min_gap_ms it returns
\* the empty list.
C14_GapBoundaries ==
    pc = "unit_gaps_found" =>
        /\ matches = <<>> => gap_list = << <<0, total_duration_ms>> >>
        /\ (matches # <<>> /\ UncoveredLong = {}) => gap_list = <<>>

\* matches leave uncovered intervals, all of them short, and no gap is planned
C14_Witness ==
    /\ pc = "unit_gaps_found"
    /\ matches # <<>>
    /\ Uncovered # {}
    /\ UncoveredLong = {}
    /\ gap_list = <<>>

\* the starts k * step from base on whose segment ends by limit + tolerance
StartsFrom(base, step, limit) ==
    LET n == IF limit >= base THEN (limit - base) \div step + 1 ELSE 0
    IN {s \in {base + k * step : k \in 0..n} :
           s + SHAZAM_SEGMENT_LENGTH_MS <= limit + TAIL_TOLERANCE_MS}

\* C15 (pass-1 plan): generate_pass1_segments(T) is the increasing list of
\* the multiples s of the pass-1 step with s + segment length <= T + 5000;
\* every start is inside the file; T = 600000 gives the 20 starts 0..570000.
C15_Pass1Plan ==
    pc = "unit_pass1_done" =>
        /\ pass_all = InOrder(StartsFrom(0, SHAZAM_PASS1_STEP_MS, total_duration_ms))
        /\ \A i \in 1..Len(pass_all) : 0 <= pass_all[i] /\ pass_all[i] < total_duration_ms
        /\ total_duration_ms = 600000 => pass_all = [i \in 1..20 |-> 30000 * (i - 1)]

\* a final segment that runs past the end of the file, inside the tolerance
C15_Witness ==
    /\ pc = "unit_pass1_done"
    /\ pass_all # <<>>
    /\ pass_all[Len(pass_all)] + SHAZAM_SEGMENT_LENGTH_MS > total_duration_ms

RECURSIVE StartsPerGap(_)
StartsPerGap(gaps) ==
    IF gaps = <<>> THEN <<>>
    ELSE InOrder(StartsFrom(gaps[1][1], SHAZAM_PASS2_STEP_MS, gaps[1][2]))
         \o StartsPerGap(Tail(gaps))

\* C16 (pass-2 plan): generate_pass2_segments(gaps) is, gap after gap, the
\* starts gap_start + k * pass-2 step with start + segment length
\* <= gap_end + 5000, and every start lies inside one of the gaps.
C16_Pass2Plan ==
    pc = "unit_pass2_done" =>
        /\ pass_all = StartsPerGap(gap_list)
        /\ \A i \in 1..Len(pass_all) :
              \E j \in 1..Len(gap_list) :
                  gap_list[j][1] <= pass_all[i] /\ pass_all[i] < gap_list[j][2]

\* two gaps, each with a start planned in it
C16_Witness ==
    /\ pc = "unit_pass2_done"
    /\ Len(gap_list) >= 2
    /\ \A j \in 1..Len(gap_list) :
          \E i \in 1..Len(pass_all) :
              gap_list[j][1] <= pass_all[i] /\ pass_all[i] < gap_list[j][2]

\* C17 (confidence is bounded and monotone): for every TrackMatch the
\* aggregator builds, calculate_confidence is in [0, 1]; of two with the same
\* spread the one with more matches has at least the confidence of the
\* other, and of two with the same match count so has the one with the
\* larger spread.
C17_ConfidenceMonotone ==
    pc \in {"unit_filter", "unit_done"} =>
        \A i, j \in 1..Len(matches) :
            LET a == matches[i]
                b == matches[j]
                spread(m) == m.last_seen_ms - m.first_seen_ms
                count(m) == Len(m.match_timestamps)
            IN /\ 0 <= calculate_confidence(a)
               /\ calculate_confidence(a) <= ConfidenceDen
               /\ (spread(a) = spread(b) /\ count(a) <= count(b))
                     => calculate_confidence(a) <= calculate_confidence(b)
               /\ (count(a) = count(b) /\ spread(a) <= spread(b))
                     => calculate_confidence(a) <= calculate_confidence(b)

\* two tracks of one spread, the one with more matches strictly more
\* confident, and the confidence of that one below the cap
C17_Witness ==
    /\ pc = "unit_filter"
    /\ \E i, j \in 1..Len(matches) :
          /\ matches[i].last_seen_ms - matches[i].first_seen_ms
                = matches[j].last_seen_ms - matches[j].first_seen_ms
          /\ Len(matches[i].match_timestamps) < Len(matches[j].match_timestamps)
          /\ calculate_confidence(matches[i]) < calculate_confidence(matches[j])
          /\ calculate_confidence(matches[j]) < ConfidenceDen

\* m is one of the printed tracks
Shown(m) == \E k \in 1..Len(shown) : shown[k] = m

\* C18 (final filter): a track is printed iff match_count >= 2 and
\* confidence >= 0.7; the printed tracks are in order of first_seen_ms; a
\* track with hits at 10000 and 97000 is printed and a track with a single
\* hit is not.
C18_FinalFilter ==
    pc = "unit_done" =>
        /\ \A i \in 1..Len(matches) :
              Shown(matches[i]) <=>
                  /\ Len(matches[i].match_timestamps) >= 2
                  /\ 10 * calculate_confidence(matches[i]) >= 7 * ConfidenceDen
        /\ \A k \in 1..Len(shown) : \E i \in 1..Len(matches) : matches[i] = shown[k]
        /\ \A k, l \in 1..Len(shown) :
              k < l => /\ shown[k].first_seen_ms <= shown[l].first_seen_ms
                       /\ shown[k] # shown[l]
        /\ \A i \in 1..Len(matches) :
              /\ SeqToSet(matches[i].match_timestamps) = {10000, 97000} => Shown(matches[i])
              /\ Len(matches[i].match_timestamps) = 1 => ~Shown(matches[i])

\* a track with hits at 10000 and 97000 is printed, next to a track with a
\* single hit that is not
C18_Witness ==
    /\ pc = "unit_done"
    /\ \E k \in 1..Len(shown) : shown[k].match_timestamps = <<10000, 97000>>
    /\ \E i \in 1..Len(matches) :
          Len(matches[i].match_timestamps) = 1 /\ ~Shown(matches[i])

\* two printed tracks, the one seen first found last by the aggregator
C18_Reordered ==
    /\ pc = "unit_done"
    /\ Len(shown) = 2
    /\ shown = <<matches[2], matches[1]>>

\* C19 (cache round trip): after cache.set(key, r), cache.get(key) has the
\* title, artist, track_id and start_ms of r and the recognition payload of
\* r, for every key and every result r.
C19_RoundTrip ==
    (pc = "unit_cache" /\ last_op.op = "set") =>
        LET r == last_op.result
            g == CacheGet(cache, last_op.key)
        IN /\ g.title = r.title
           /\ g.artist = r.artist
           /\ g.track_id = r.track_id
           /\ g.start_ms = r.start_ms
           /\ g.raw_response = r.raw_response

\* what the code establishes: title, artist and track_id always come back;
\* start_ms is the key's, and the payload {} comes back as None
C19_RoundTripOfFields ==
    (pc = "unit_cache" /\ last_op.op = "set") =>
        LET r == last_op.result
            g == CacheGet(cache, last_op.key)
        IN /\ g.title = r.title
           /\ g.artist = r.artist
           /\ g.track_id = r.track_id
           /\ g.start_ms = last_op.key.start_ms
           /\ g.raw_response = IF r.raw_response = EmptyResponse THEN NullResponse
                               ELSE r.raw_response

\* a result with the payload {} was set under a key of its own start
C19_EmptyPayloadLost ==
    /\ pc = "unit_cache"
    /\ last_op.op = "set"
    /\ last_op.result.start_ms = last_op.key.start_ms
    /\ last_op.result.raw_response = EmptyResponse
    /\ CacheGet(cache, last_op.key).raw_response = NullResponse

\* C20 (upsert): after any sequence of set and clear_for_audio the store has
\* at most one row per cache key; a set on a key that has a row leaves the
\* number of rows unchanged; and get(key) returns the most recent set on the
\* key that no clear of its audio_hash followed, and nothing for a key
\* without such a set.
C20_Upsert ==
    pc = "unit_cache" =>
        /\ \A r1, r2 \in cache : r1.cache_key = r2.cache_key => r1 = r2
        /\ (last_op.op = "set") =>
              Cardinality(cache) = last_op.rows_before + (IF last_op.replaced THEN 0 ELSE 1)
        /\ \A key \in CacheKeys :
              /\ CacheHasKey(cache, key) <=> KeyStr(key) \in DOMAIN last_set
              /\ KeyStr(key) \in DOMAIN last_set =>
                    LET r == last_set[KeyStr(key)]
                        g == CacheGet(cache, key)
                    IN /\ g.track_id = r.track_id
                       /\ g.title = r.title
                       /\ g.artist = r.artist
                       /\ r.raw_response # EmptyResponse => g.raw_response = r.raw_response

\* a set replaced the row of its key by another track while other rows exist
C20_Witness ==
    /\ pc = "unit_cache"
    /\ last_op.op = "set"
    /\ last_op.replaced
    /\ last_op.rows_before >= 2
    /\ Cardinality(DOMAIN last_set) < last_op.rows_before + 1
    /\ CacheGet(cache, last_op.key).track_id = "B"

\* the positions of the batch whose extraction succeeded, and those among
\* them that name the start s
OkPositions == {i \in 1..Len(job) : job[i] = "ok"}
OkPositionsOf(s) == {i \in OkPositions : batch_call.segments[i] = s}
PairsOf(s) == {k \in 1..Len(returned.value) : returned.value[k][2] = s}

\* C21 (failed extractions are dropped, never fatal): extract_batch never
\* ends with an exception because ffmpeg exited non-zero; when it returns,
\* every spec of the batch has been tried, and the list holds exactly one
\* pair (segment_path, start_ms) for each spec whose extraction succeeded
\* and none for a spec whose extraction failed.
C21_FailuresDropped ==
    (pc \in {"unit_batch", "unit_batch_done"} /\ batch_call.fn = "extract_batch") =>
        /\ returned.state # "raised"
        /\ returned.state = "returned" =>
              /\ Unfinished = {}
              /\ Len(returned.value) = Cardinality(OkPositions)
              /\ \A k \in 1..Len(returned.value) :
                    /\ returned.value[k] # NonePair
                    /\ returned.value[k][1] = SegmentPath(returned.value[k][2])
              /\ \A s \in BatchStarts :
                    Cardinality(PairsOf(s)) = Cardinality(OkPositionsOf(s))

\* extract_batch returned two pairs of a batch of three whose first
\* extraction to finish was a failure
C21_Witness ==
    /\ batch_call.fn = "extract_batch"
    /\ returned.state = "returned"
    /\ Len(job) = 3
    /\ job[done_order[1]] = "failed"
    /\ Len(returned.value) = 2

\* the pair extract_batch builds for the spec at position i
PairOf(i) == <<SegmentPath(batch_call.segments[i]), batch_call.segments[i]>>

\* the list holds the pairs of the succeeded positions, those positions
\* taken in the order given by rank (a position's place in some sequence)
PairsFollow(rank) ==
    \E pos \in [1..Len(returned.value) -> 1..Len(job)] :
        /\ \A k \in 1..Len(returned.value) : returned.value[k] = PairOf(pos[k])
        /\ {pos[k] : k \in 1..Len(returned.value)} = OkPositions
        /\ \A k, l \in 1..Len(returned.value) : k < l => rank[pos[k]] < rank[pos[l]]

\* the place of position i in the order of completion
CompletionRank == [i \in 1..Len(job) |-> CHOOSE k \in 1..Len(done_order) : done_order[k] = i]
InputRank == [i \in 1..Len(job) |-> i]

\* the result at place k is the one of position i: it carries the start of
\* position i, and a track only if the call of position i was answered
ResultIsOf(k, i) ==
    /\ returned.value[k].start_ms = batch_call.segments[i]
    /\ job[i] = "failed" => ~has_match(returned.value[k])
    /\ has_match(returned.value[k]) =>
          returned.value[k].raw_response = ServiceResponse(recording, batch_call.segments[i])

\* C22 (completion modes): whatever the order in which the tasks finish,
\* extract_batch_ordered returns the pairs of the succeeded specs in the
\* order of the input list and recognize_batch_ordered returns one result
\* per input segment, result i being the one of input i; extract_batch and
\* recognize_batch return the same elements in the order of completion.
C22_CompletionModes ==
    (pc = "unit_batch_done" /\ returned.state = "returned") =>
        /\ batch_call.fn = "extract_batch_ordered" => PairsFollow(InputRank)
        /\ batch_call.fn = "extract_batch" => PairsFollow(CompletionRank)
        /\ batch_call.fn \in RecognizeFns => Len(returned.value) = Len(batch_call.segments)
        /\ batch_call.fn = "recognize_batch_ordered" =>
              \A i \in 1..Len(job) : ResultIsOf(i, i)
        /\ batch_call.fn = "recognize_batch" =>
              \A k \in 1..Len(job) : ResultIsOf(k, done_order[k])

\* recognize_batch_ordered returned three results for three different
\* starts whose second call was answered first and whose third call failed
C22_Witness ==
    /\ pc = "unit_batch_done"
    /\ batch_call.fn = "recognize_batch_ordered"
    /\ batch_call.segments = <<0, 7500, 15000>>
    /\ done_order[1] = 2
    /\ job[3] = "failed"
    /\ returned.value[2].start_ms = 7500

PlanOfAPass ==
    \/ pc = "unit_pass1_done"
    \/ /\ pc = "unit_pass2_done"
       /\ gap_list = find_gaps(matches, total_duration_ms, SHAZAM_MIN_GAP_MS)

\* C25 (disjoint keys and paths): the segment starts of a pass, pass-1
\* starts as well as pass-2 starts over all gaps, are pairwise distinct, so
\* the tasks made from them, one per start of the list, have pairwise
\* different cache keys and pairwise different temp file paths.
C25_DisjointWrites ==
    PlanOfAPass =>
        \A i, j \in 1..Len(pass_all) :
            i # j =>
                /\ pass_all[i] # pass_all[j]
                /\ KeyStr(KeyOf(pass_all[i])) # KeyStr(KeyOf(pass_all[j]))
                /\ SegmentPath(pass_all[i]) # SegmentPath(pass_all[j])

\* a pass-2 plan with starts from two gaps
C25_Witness ==
    /\ pc = "unit_pass2_done"
    /\ gap_list = find_gaps(matches, total_duration_ms, SHAZAM_MIN_GAP_MS)
    /\ Len(gap_list) = 2
    /\ \E i, j \in 1..Len(pass_all) :
          /\ gap_list[1][1] <= pass_all[i] /\ pass_all[i] < gap_list[1][2]
          /\ gap_list[2][1] <= pass_all[j] /\ pass_all[j] < gap_list[2][2]

\* the place of a position in the body of recognize_segments_two_pass
PhaseRank(p) ==
    CASE p = "probe_duration" -> 1
      [] p = "init_cache" -> 2
      [] p = "force_clear" -> 3
      [] p = "read_cached" -> 4
      [] p = "mkdtemp" -> 5
      [] p = "pass1_plan" -> 6
      [] p = "pass1_extract" -> 7
      [] p = "pass1_recognize" -> 8
      [] p = "pass1_aggregate" -> 9
      [] p = "pass2_plan" -> 10
      [] p = "pass2_extract" -> 11
      [] p = "pass2_recognize" -> 12
      [] p = "final_aggregate" -> 13
      [] p = "finally" -> 14
      [] OTHER -> 15

\* what may follow a position: the next phase, the aggregation directly
\* after a plan without uncached segments, or a way out of the run
PhaseSuccessors(p) ==
    (CASE p \in SetupPcs \ {"mkdtemp"} ->
              {q \in SetupPcs : PhaseRank(q) = PhaseRank(p) + 1} \cup {"aborted"}
       [] p = "mkdtemp" -> {"pass1_plan"}
       [] p = "pass1_plan" -> {"pass1_extract", "pass1_aggregate"}
       [] p = "pass1_extract" -> {"pass1_recognize"}
       [] p = "pass1_recognize" -> {"pass1_aggregate"}
       [] p = "pass1_aggregate" -> {"pass2_plan"}
       [] p = "pass2_plan" -> {"pass2_extract", "final_aggregate"}
       [] p = "pass2_extract" -> {"pass2_recognize"}
       [] p = "pass2_recognize" -> {"final_aggregate"}
       [] p = "final_aggregate" -> {"finally"}
       [] p = "finally" -> {"done", "raised"}
       [] OTHER -> {})
    \cup (IF p \in TryPcs THEN {"finally"} ELSE {})
    \cup (IF PhaseRank(p) < 15 THEN {"killed"} ELSE {})

\* C26 (phase order): the positions of a run follow each other in the order
\* probe, pass-1 plan, pass-1 extract, pass-1 recognize, pass-1 aggregate,
\* pass-2 plan, pass-2 extract, pass-2 recognize, final aggregate and
\* report, return; none is entered twice and none but the extraction and
\* recognition of a pass without uncached segments is left out; pass 2 is
\* planned from the matches aggregated over every result of pass 1, when no
\* extraction or recognition of pass 1 is left running.
C26_PhaseOrder ==
    pc \in RestPcs \cup SetupPcs \cup TryPcs \cup {"finally"} =>
        /\ \A i \in 1..(Len(phase_log) - 1) :
              /\ PhaseRank(phase_log[i]) < PhaseRank(phase_log[i + 1])
              /\ phase_log[i + 1] \in PhaseSuccessors(phase_log[i])
        /\ Len(phase_log) > 0 =>
              phase_log[1] = "probe_duration" /\ phase_log[Len(phase_log)] = pc
        /\ pc \in {"pass1_aggregate", "pass2_plan"} =>
              /\ rpc = "idle"
              /\ extract_pending = {}
              /\ \A s \in DOMAIN task : task[s] = "done"
        /\ pc = "pass2_plan" =>
              matches = aggregate_matches(get_all_results(cache, audio_hash))
        /\ pc \in {"pass2_extract", "pass2_recognize"} =>
              /\ pass_all = generate_pass2_segments(
                                find_gaps(matches, total_duration_ms, SHAZAM_MIN_GAP_MS))
              /\ \A i \in 1..Len(matches) :
                    \E row \in cache : row.audio_hash = audio_hash
                                       /\ row.track_id = matches[i].shazam_id

\* a run went through every phase, both passes with segments to recognise
C26_Witness ==
    /\ pc = "done"
    /\ phase_log = <<"probe_duration", "init_cache", "force_clear", "read_cached",
                     "mkdtemp", "pass1_plan", "pass1_extract", "pass1_recognize",
                     "pass1_aggregate", "pass2_plan", "pass2_extract", "pass2_recognize",
                     "final_aggregate", "finally", "done">>

\* the current run has written its final report
FinalReportWritten == Visited("final_aggregate") /\ exit_kind = "return"

\* C27 (report checkpoints): a run writes no report before its pass-1
\* aggregation; from the pass-1 aggregation until the final aggregation,
\* so during all of pass 2, it has written exactly one, the pass-1 report
\* of its matches, and that report is what the file holds if the run is
\* killed or raises there; after the final aggregation it has written
\* exactly two and the file holds the final report; a run that returns
\* has written both, also when a pass had no uncached segment.
C27_ReportCheckpoints ==
    (pc \in RestPcs \cup SetupPcs \cup TryPcs \cup {"finally"} /\ run > 0) =>
        /\ ~Visited("pass2_plan") => report_writes = 0
        /\ (Visited("pass2_plan") /\ ~FinalReportWritten) =>
              /\ report_writes = 1
              /\ report.phase = "Pass 1 complete"
              /\ report.matches = SortByFirstSeen(matches, <<>>)
        /\ FinalReportWritten =>
              /\ report_writes = 2
              /\ report.phase = "Complete"
              /\ report.matches = SortByFirstSeen(final_matches, <<>>)
        /\ pc \in {"pass2_extract", "pass2_recognize"} => ~FinalReportWritten
        /\ pc = "done" => FinalReportWritten

\* a run whose pass 1 had no uncached segment was killed or raised during
\* the recognition of pass 2: the file holds the pass-1 report of that run
C27_Witness ==
    /\ pc \in {"killed", "raised"}
    /\ Visited("pass2_recognize")
    /\ ~Visited("pass1_extract")
    /\ ~Visited("final_aggregate")
    /\ report_writes = 1
    /\ report.phase = "Pass 1 complete"

\* a step of a run keeps every row it finds, unless it is the clear of a
\* force_redo run, and writes a row only for a key that has none
RowsKept ==
    pc \in SetupPcs \cup TryPcs \cup {"finally"} =>
        /\ \A row \in cache :
              \/ row \in cache'
              \/ pc = "force_clear" /\ force_redo /\ row.audio_hash = audio_hash
        /\ \A s \in written_this_run' \ written_this_run :
              ~CacheHasKey(cache, KeyOf(s))

\* C28 (persisted rows are immutable): no step of a run changes, replaces
\* or removes a row the store holds, except the clear of the file's rows at
\* the start of a force_redo run; the recognizer writes a row only for a key
\* that has none.
C28_Immutable == [][RowsKept]_vars

\* a second run without force_redo has written a row while every row its
\* file had at the start of the run is still in the store
C28_Witness ==
    /\ run = 2
    /\ ~force_redo
    /\ pc \in TryPcs
    /\ written_this_run # {}
    /\ \E row \in cache_at_start : row.audio_hash = audio_hash
    /\ cache_at_start \subseteq cache

\* control is outside extract_and_recognize_parallel
OutsideParallel == pc \notin ExtractPcs \cup RecognizePcs

\* C29 (extractor pool lifecycle): whenever extract_and_recognize_parallel
\* has been left, by return or by an exception raised during extraction or
\* recognition, the extractor's worker pool has been shut down.
C29_PoolShutDown ==
    (pc \in RestPcs \cup SetupPcs \cup TryPcs \cup {"finally"} /\ OutsideParallel) =>
        executor = "none"

\* what holds: the pool is shut down whenever the function has returned
C29_ShutDownOnReturn ==
    pc \in {"pass1_aggregate", "pass2_plan", "final_aggregate", "done"} =>
        executor = "none"

\* an exception left extract_and_recognize_parallel during the recognition
\* of pass 1 and the finally clause runs while the pool is still there
C29_LeftRunning ==
    /\ pc = "finally"
    /\ exit_kind = "raise"
    /\ Visited("pass1_recognize")
    /\ ~Visited("pass1_aggregate")
    /\ executor = "running"

\* the loop of recognize_batch sleeps after the 5th, 10th, ... result it takes
C30_PauseEveryFive ==
    (pc \in {"unit_batch", "unit_batch_done"} /\ batch_call.fn = "recognize_batch") =>
        /\ collector.pauses = collector.taken \div 5
        /\ collector.pausing => collector.taken > 0 /\ collector.taken % 5 = 0

\* C30 (rate-limit pause): recognize_batch pauses after every 5 completed
\* recognitions, and no call of the recognition service is started for a
\* segment of the batch while such a pause is in progress.
C30_RateLimitPause ==
    (pc \in {"unit_batch", "unit_batch_done"} /\ batch_call.fn = "recognize_batch") =>
        /\ C30_PauseEveryFive
        /\ calls_in_pause = {}

\* seven segments under a limit of one: the loop sleeps after the fifth
\* result, the sixth call ends and the call for the seventh segment starts
C30_CallStartedInPause ==
    /\ batch_call.fn = "recognize_batch"
    /\ batch_call.limit = SHAZAM_MAX_CONCURRENT
    /\ Len(job) = 7
    /\ collector.taken = 5
    /\ collector.pausing
    /\ calls_in_pause = {7}
    /\ job[7] = "in_call"

\* the file hashes of the store's keys
CacheHashes == {key.audio_file_hash : key \in CacheKeys}

\* a lookup made with hash h sees the rows of h and no others
LookupsSeeOnly(c, h) ==
    /\ get_cached_segments(c, h) = {row.start_ms : row \in {r \in c : r.audio_hash = h}}
    /\ Len(get_all_results(c, h)) = Cardinality({r \in c : r.audio_hash = h})
    /\ \A i \in 1..Len(get_all_results(c, h)) :
          \E row \in c : /\ row.audio_hash = h
                         /\ row.start_ms = get_all_results(c, h)[i].start_ms
                         /\ row.track_id = get_all_results(c, h)[i].track_id
    /\ \A key \in CacheKeys :
          (key.audio_file_hash = h /\ CacheHasKey(c, key)) =>
              \E row \in c : row.audio_hash = h /\ row.cache_key = KeyStr(key)
                             /\ row.track_id = CacheGet(c, key).track_id

\* a step of the store: what a clear does, what every step keeps
ClearStep ==
    pc = "unit_cache" =>
        /\ \A h \in CacheHashes : LookupsSeeOnly(cache, h)
        /\ last_op'.op = "clear" =>
              /\ \A row \in cache : row \in cache' <=> row.audio_hash # last_op'.audio_hash
              /\ cache' \subseteq cache
              /\ last_op'.deleted =
                    Cardinality({row \in cache : row.audio_hash = last_op'.audio_hash})
              /\ \A key \in CacheKeys :
                    key.audio_file_hash = last_op'.audio_hash => ~CacheHasKey(cache', key)
        /\ last_op'.op = "set" =>
              \A row \in cache :
                  row.audio_hash # last_op'.key.audio_file_hash => row \in cache'

\* C31 (clear_for_audio): clear_for_audio(h) deletes exactly the rows whose
\* audio_hash is h, returns the number of rows it deleted and leaves every
\* row of another audio_hash as it was; the rows of another hash, such as
\* the previous hash of a changed file, stay in the store when the new hash
\* is written or looked up, and no lookup made with one hash returns a row
\* of another.
C31_ClearForAudio == [][ClearStep]_vars

\* a clear deleted the three rows of one file and left the row of the other
C31_Witness ==
    /\ pc = "unit_cache"
    /\ last_op.op = "clear"
    /\ last_op.audio_hash = "h1"
    /\ last_op.deleted = 3
    /\ Cardinality(cache) = 1
    /\ get_cached_segments(cache, "h2") = {0}
    /\ get_all_results(cache, "h1") = <<>>

\* C32 (bounded extraction pool): at any time at most max_workers
\* extractions of one extractor are running, whatever the size of the
\* batch; the bound is the extractor's own max_workers.
C32_BoundedPool ==
    (pc \in {"unit_batch", "unit_batch_done"} /\ batch_call.fn \in ExtractFns) =>
        Cardinality(Extracting) <= batch_call.limit

\* a batch of three under max_workers = 2: two extractions are running and
\* the third is queued
C32_Witness ==
    /\ pc = "unit_batch"
    /\ batch_call.fn = "extract_batch"
    /\ batch_call.limit = 2
    /\ Len(job) = 3
    /\ Cardinality(Extracting) = 2
    /\ \E i \in 1..3 : job[i] = "pending"

\* the store after recognising, one after the other and without failure,
\* those starts of a plan that have no row yet
RECURSIVE RecognizedAll(_, _)
RecognizedAll(c, starts) ==
    IF starts = <<>> THEN c
    ELSE LET s == Head(starts)
             next == IF CacheHasKey(c, KeyOf(s)) THEN c
                     ELSE CacheSet(c, KeyOf(s),
                                   from_shazam_response(s, ServiceResponse(recording, s)))
         IN RecognizedAll(next, Tail(starts))

\* what one uninterrupted run without failures returns for the file, from
\* an empty store: pass 1, aggregation, gaps, pass 2, final aggregation
UninterruptedFinal ==
    LET T == get_audio_duration_ms(recording)
        c1 == RecognizedAll({}, generate_pass1_segments(T))
        m1 == aggregate_matches(get_all_results(c1, audio_hash))
        c2 == RecognizedAll(c1, generate_pass2_segments(find_gaps(m1, T, SHAZAM_MIN_GAP_MS)))
    IN aggregate_matches(get_all_results(c2, audio_hash))

\* a track set: per track its id, match count, first and last seen time
TrackSetOf(ms) ==
    {[id |-> ms[i].shazam_id, count |-> match_count(ms[i]),
      first |-> ms[i].first_seen_ms, last |-> ms[i].last_seen_ms] : i \in 1..Len(ms)}

\* the second run of a file whose first run was killed has returned, and
\* nothing failed in either run
ResumedRunReturned ==
    /\ pc = "done"
    /\ run = 2
    /\ ~force_redo
    /\ faults = 0
    /\ kills = 1

\* a first run without failure returns what UninterruptedFinal computes
C33_UninterruptedRun ==
    (pc = "done" /\ run = 1 /\ faults = 0) =>
        TrackSetOf(final_matches) = TrackSetOf(UninterruptedFinal)

\* C33 (resume equivalence): with a deterministic service and no failures,
\* a run that was killed at any point and is restarted with force_redo =
\* false returns the track set, with the same match counts and first and
\* last seen times, that one uninterrupted run on the file returns.
C33_ResumeEquivalence ==
    ResumedRunReturned => TrackSetOf(final_matches) = TrackSetOf(UninterruptedFinal)

\* the restarted run returned a track with fewer matches than the
\* uninterrupted run finds for it
C33_ResumeDiffers ==
    /\ ResumedRunReturned
    /\ \E a \in TrackSetOf(final_matches), b \in TrackSetOf(UninterruptedFinal) :
          a.id = b.id /\ a.count < b.count

\* what holds: every track the restarted run returns is a track of the
\* uninterrupted run, seen no more often, no earlier and no later
C33_ResumeWithin ==
    ResumedRunReturned =>
        \A a \in TrackSetOf(final_matches) :
            \E b \in TrackSetOf(UninterruptedFinal) :
                /\ a.id = b.id
                /\ a.count <= b.count
                /\ a.first >= b.first
                /\ a.last <= b.last

\* C34 (one service call per segment and run): within one run, pass 1 and
\* pass 2 together, the recognition service is called at most once for any
\* segment start of the file, also when the call of pass 1 for it failed.
C34_OneCallPerSegment ==
    pc \in RestPcs \cup SetupPcs \cup TryPcs \cup {"finally"} =>
        \A s \in DOMAIN service_calls : service_calls[s] <= 1

\* what holds: a start is called at most once per pass, and a second time
\* only in pass 2 of a run in which a service call failed
C34_SecondCallAfterFailure ==
    pc \in RestPcs \cup SetupPcs \cup TryPcs \cup {"finally"} =>
        \A s \in DOMAIN service_calls :
            /\ service_calls[s] <= 2
            /\ service_calls[s] = 2 =>
                  "recognition" \in segment_failures /\ Visited("pass2_recognize")

\* the call for start 0 failed in pass 1 and the service is called for
\* start 0 again in pass 2 of the same run
C34_CalledTwice ==
    /\ pc = "pass2_recognize"
    /\ 0 \in DOMAIN service_calls
    /\ service_calls[0] = 2
    /\ 0 \in failed_calls
    /\ 0 \in SeqToSet(pass_uncached)

\* C35 (stage barrier inside a pass): no recognition task of a pass exists
\* while extract_batch is still running, and when recognition runs, the
\* extraction of every segment of the pass has completed, successfully or
\* not, so every file a recognition call reads is a finished one.
C35_StageBarrier ==
    /\ pc \in ExtractPcs =>
          /\ rpc = "idle"
          /\ DOMAIN task = {}
    /\ pc \in RecognizePcs =>
          /\ extract_pending = {}
          /\ extracted = SeqToSet(pass_uncached)
          /\ DOMAIN task \subseteq segment_paths
          /\ \A s \in InFlight : s \in segment_files

\* pass 1 recognises a segment after the extraction of another segment of
\* the pass has failed and every extraction is over
C35_Witness ==
    /\ pc = "pass1_recognize"
    /\ InFlight # {}
    /\ Cardinality(extracted) >= 2
    /\ "extraction" \in segment_failures
    /\ extract_pending = {}

\* the rows the store holds for the file, and the starts at which a list
\* of matches has seen track id
FileRows == {row \in cache : row.audio_hash = audio_hash}
SeenAt(ms, id) ==
    UNION {SeqToSet(ms[i].match_timestamps) : i \in {j \in 1..Len(ms) : ms[j].shazam_id = id}}

\* a list of matches says what the rows of the file say, and nothing else
FunctionOfRows(ms) ==
    /\ ms = aggregate_matches(get_all_results(cache, audio_hash))
    /\ {ms[i].shazam_id : i \in 1..Len(ms)} = {row.track_id : row \in FileRows} \ {None}
    /\ \A i \in 1..Len(ms) :
          SeqToSet(ms[i].match_timestamps) =
              {row.start_ms : row \in {q \in FileRows : q.track_id = ms[i].shazam_id}}

\* C36 (the track set is a function of the cache): the matches a run returns
\* are aggregate_matches over all rows the store holds for the file when the
\* run ends, rows of earlier runs included; the matches pass 2 is planned
\* from are aggregate_matches over all rows present at that moment; a
\* segment whose recognition failed has no row and appears in no match.
C36_FunctionOfCache ==
    /\ pc = "pass2_plan" => FunctionOfRows(matches)
    /\ (pc \in {"finally", "done"} /\ exit_kind = "return") => FunctionOfRows(final_matches)
    /\ pc = "done" =>
          \A s \in failed_calls :
              \A i \in 1..Len(final_matches) :
                  s \notin SeqToSet(final_matches[i].match_timestamps)

\* a second run returned a track from a row of the first run, found another
\* match itself, and a start whose call failed is in no match
C36_Witness ==
    /\ pc = "done"
    /\ run = 2
    /\ \E row \in cache_at_start :
          /\ row.track_id # None
          /\ row.start_ms \in SeenAt(final_matches, row.track_id)
    /\ \E s \in written_this_run :
          \E i \in 1..Len(final_matches) : s \in SeqToSet(final_matches[i].match_timestamps)
    /\ failed_calls # {}

\* the starts the cache keys of the unit range over
CacheStarts == {key.start_ms : key \in CacheKeys}

\* has(audio_hash, start_ms, duration_ms) for the configured duration
HasConfigured(c, h, s) == CacheHasKey(c, SegmentCacheKey(h, s, SHAZAM_SEGMENT_LENGTH_MS))

\* C37 (a skipped start has a cached result): for every audio_hash and
\* start, the start is in get_cached_segments(audio_hash) exactly if
\* has(audio_hash, start, configured duration) is true, so get() returns a
\* result for every start the orchestrator would skip.
C37_SkippedHasResult ==
    \A h \in CacheHashes : \A s \in CacheStarts :
        s \in get_cached_segments(cache, h) <=> HasConfigured(cache, h, s)

\* C37, the direction that holds: a start that has() reports for the
\* configured duration is in get_cached_segments
C37_HasImpliesListed ==
    \A h \in CacheHashes : \A s \in CacheStarts :
        HasConfigured(cache, h, s) => s \in get_cached_segments(cache, h)

\* C37 inside one pipeline: every row of the file was written with the
\* configured duration, and there the two lookups agree on every start
C37_AgreesInPipeline ==
    /\ \A row \in FileRows : row.duration_ms = SHAZAM_SEGMENT_LENGTH_MS
    /\ \A s \in get_cached_segments(cache, audio_hash) :
          HasConfigured(cache, audio_hash, s)

\* the store holds start 0 of a file only with another duration: the start
\* is listed as cached and get() has nothing for the configured key
C37_ListedWithoutResult ==
    /\ pc = "unit_cache"
    /\ 0 \in get_cached_segments(cache, "h1")
    /\ ~HasConfigured(cache, "h1", 0)
    /\ CacheHasKey(cache, SegmentCacheKey("h1", 0, 10000))

\* C38 (statistics agree with aggregation): in every state of the store and
\* for every audio_hash, unique_tracks is the number of TrackMatches of
\* aggregate_matches(get_all_results(audio_hash)), segments_with_match is
\* the length of get_matches_only(audio_hash), total_segments is the length
\* of get_all_results(audio_hash), and
\* unique_tracks <= segments_with_match <= total_segments.
C38_StatsAgree ==
    \A h \in CacheHashes :
        LET stats == get_cache_stats(cache, h)
        IN /\ stats.unique_tracks = Len(aggregate_matches(get_all_results(cache, h)))
           /\ stats.segments_with_match = Len(get_matches_only(cache, h))
           /\ stats.total_segments = Len(get_all_results(cache, h))
           /\ stats.unique_tracks <= stats.segments_with_match
           /\ stats.segments_with_match <= stats.total_segments
           /\ \A i \in 1..Len(get_matches_only(cache, h)) :
                 get_matches_only(cache, h)[i].track_id # None

\* a file with three rows, two of them with the same track: 1 < 2 < 3
C38_Witness ==
    /\ pc = "unit_cache"
    /\ get_cache_stats(cache, "h1") =
          [total_segments |-> 3, segments_with_match |-> 2, unique_tracks |-> 1]

\* the TrackMatch invariant of one match
TrackMatchInvariant(m) ==
    LET stamps == SeqToSet(m.match_timestamps)
    IN /\ match_count(m) >= 1
       /\ m.first_seen_ms \in stamps
       /\ \A ts \in stamps : m.first_seen_ms <= ts
       /\ m.last_seen_ms \in stamps
       /\ \A ts \in stamps : ts <= m.last_seen_ms
       /\ m.first_seen_ms <= m.last_seen_ms
       /\ duration_ms(m) >= 0

\* C39 (TrackMatch invariant): after aggregate_matches over any list of
\* results, every TrackMatch has match_count >= 1, first_seen_ms equal to
\* the minimum and last_seen_ms equal to the maximum of its
\* match_timestamps, hence first_seen_ms <= last_seen_ms and
\* duration_ms >= 0.
C39_TrackMatchInvariant ==
    pc \in {"unit_filter", "unit_done"} =>
        \A i \in 1..Len(matches) : TrackMatchInvariant(matches[i])

\* a track aggregated from three hits met latest first: the first and the
\* last timestamp of the list are not its bounds
C39_Witness ==
    /\ pc = "unit_filter"
    /\ results # <<>>
    /\ \E i \in 1..Len(matches) :
          LET m == matches[i]
          IN /\ match_count(m) >= 3
             /\ m.first_seen_ms < m.match_timestamps[1]
             /\ m.first_seen_ms < m.last_seen_ms

====
